---- MODULE Spec2Model ----
(***************************************************************************)
(* Content scheduling: the React components and data hooks that read and   *)
(* write the remote table scheduled_content.                               *)
(*                                                                         *)
(* Time is counted in minutes since the epoch.  A value of a               *)
(* datetime-local input ("YYYY-MM-DDTHH:mm") is the number of minutes its  *)
(* wall-clock reading stands for; an empty input or a null timestamp is    *)
(* NoTime.  One component is mounted at a time (scene); the components     *)
(* share nothing but the remote table.                                     *)
(***************************************************************************)
EXTENDS Integers, Sequences, FiniteSets, TLC

VARIABLES
    scene,        \* the mounted component
    tz,           \* browser timezone, minutes east of UTC (-getTimezoneOffset())
    user,         \* useUsers().currentUser: a user id, or NoUser
    now,          \* the clock (new Date())
    table,        \* remote table scheduled_content: a set of rows
    nextId,       \* the identity column's next value
    net,          \* remote calls in flight, by slot
    evt,          \* the handler step just taken: who ran, how it ended, error toasts shown
    \* ScheduleDisplay
    sdContent, sdRow, sdLoading, sdModalOpen, sdUpdating, sdInput, sdError,
    \* useScheduledContent
    scList, scLoading, scError,
    \* ScheduledPostsTab
    ptRefreshing, ptEditing, ptDialogOpen, ptInput, ptSaving,
    \* useContentSchedules
    csMap, csLoading,
    \* ContentScheduleModal
    cmOpen, cmInfo, cmUpdating, cmEditing,
    \* ScheduleContentDialog
    dlVersion, dlOpen, dlSelected, dlSchedules, dlSubmitting,
    \* UpdateScheduleDialog
    udOpen, udCurrent, udInput, udError, udUpdating,
    \* SourcesTab
    stLoading, stType, stUrl, stCreating, stDialogOpen, stForm,
    \* DateTimePicker: selectedDate, timeValue, the value passed last to onDateTimeChange,
    \* and whether the component is still mounted
    dp

envVars == <<scene, tz, user>>
sdVars == <<sdContent, sdRow, sdLoading, sdModalOpen, sdUpdating, sdInput, sdError>>
scVars == <<scList, scLoading, scError>>
ptVars == <<ptRefreshing, ptEditing, ptDialogOpen, ptInput, ptSaving>>
csVars == <<csMap, csLoading>>
cmVars == <<cmOpen, cmInfo, cmUpdating, cmEditing>>
dlVars == <<dlVersion, dlOpen, dlSelected, dlSchedules, dlSubmitting>>
udVars == <<udOpen, udCurrent, udInput, udError, udUpdating>>
stVars == <<stLoading, stType, stUrl, stCreating, stDialogOpen, stForm>>
vars == <<envVars, now, table, nextId, net, evt, sdVars, scVars, ptVars, csVars, cmVars, dlVars, udVars, stVars, dp>>

\* what a step of one component leaves alone
notSd == <<scVars, ptVars, csVars, cmVars, dlVars, udVars, stVars, dp>>
notSc == <<sdVars, csVars, cmVars, dlVars, udVars, stVars, dp>>
notCs == <<sdVars, scVars, ptVars, dlVars, udVars, stVars, dp>>
notDl == <<sdVars, ptVars, csVars, cmVars, udVars, stVars, dp>>
notUd == <<sdVars, scVars, ptVars, csVars, cmVars, dlVars, stVars, dp>>
notSt == <<sdVars, scVars, ptVars, csVars, cmVars, dlVars, udVars, dp>>
notDp == <<sdVars, scVars, ptVars, csVars, cmVars, dlVars, udVars, stVars>>
allViews == <<sdVars, scVars, ptVars, csVars, cmVars, dlVars, udVars, stVars, dp>>

----------------------------------------------------------------------------
(* Bounds of the model *)

MaxTicks == 1          \* clock advances
MaxId == 3             \* highest id the identity column hands out
MaxInflight == 2       \* remote calls in flight at once

(* Program constants *)

IstShift == 330        \* 5.5 * 60 * 60 * 1000 ms

MinutesPerDay == 24 * 60
TickStep == 12 * 60
T0 == 2 * MinutesPerDay
Horizon == T0 + MinutesPerDay + TickStep      \* no later time is written
NoTime == 0 - 1
NoUser == 0
NullStatus == "NULL"

TzOffsets == {0 - 300, 0, IstShift}
Contents == {1, 2}
Slots == 1 .. MaxInflight
InputWalls == {T0 - 60, T0 + 60, T0 + MinutesPerDay + 60}

----------------------------------------------------------------------------
(* JavaScript Date *)

\* new Date("YYYY-MM-DDTHH:mm"): a date-time without offset is local time
ParseLocal(w) == w - tz

\* date.toISOString().slice(0, 16): the UTC wall clock of the instant
IsoSlice16(t) == t

\* date.toISOString() of a stored instant
ToISOString(t) == t

----------------------------------------------------------------------------
(* The remote table *)

Columns == {"id", "created_at", "user_id", "content_id", "status", "scheduled_at", "posted_at"}

SeedRow1 ==
    [id |-> 1, created_at |-> T0 - MinutesPerDay, user_id |-> 1, content_id |-> 1,
     status |-> "pending", scheduled_at |-> T0 + MinutesPerDay, posted_at |-> NoTime]

SeedRow2 ==
    [id |-> 2, created_at |-> T0 - MinutesPerDay, user_id |-> 2, content_id |-> 2,
     status |-> "posted", scheduled_at |-> T0 - TickStep, posted_at |-> T0 - TickStep]

SeedRow3 ==
    [id |-> 3, created_at |-> T0 - MinutesPerDay, user_id |-> 1, content_id |-> 1,
     status |-> "pending", scheduled_at |-> T0 + 120, posted_at |-> NoTime]

SeedTables == {{}, {SeedRow1}, {SeedRow1, SeedRow2}}

\* tables with two future schedules of one content
CsSeedTables == {{SeedRow1}, {SeedRow1, SeedRow3}, {SeedRow1, SeedRow2, SeedRow3}}

Ids(rows) == {r.id : r \in rows}

RowOf(rows, id) == CHOOSE r \in rows : r.id = id

Get(rec, f, default) == IF f \in DOMAIN rec THEN rec[f] ELSE default

\* insert: id from the identity column, created_at DEFAULT now(), status DEFAULT 'pending'
NewRow(item, id) ==
    [id |-> id, created_at |-> now,
     user_id |-> Get(item, "user_id", NoUser),
     content_id |-> Get(item, "content_id", 0),
     status |-> Get(item, "status", "pending"),
     scheduled_at |-> Get(item, "scheduled_at", NoTime),
     posted_at |-> Get(item, "posted_at", NoTime)]

InsertedRows(items) == [i \in 1 .. Len(items) |-> NewRow(items[i], nextId + i - 1)]

\* update(fields): the columns named in fields are overwritten
Patch(row, fields) == [c \in Columns |-> IF c \in DOMAIN fields THEN fields[c] ELSE row[c]]

\* an update without its filter
UpdateEveryRow(rows, id, fields) == {Patch(r, fields) : r \in rows}

\* .update(fields).eq('id', id)
UpdateById(rows, id, fields) == {IF r.id = id THEN Patch(r, fields) ELSE r : r \in rows}

\* .delete().eq('id', id)
DeleteById(rows, id) == {r \in rows : r.id # id}

Range(s) == {s[i] : i \in DOMAIN s}

\* ascending order puts NULL last
SortKey(t) == IF t = NoTime THEN Horizon + MinutesPerDay ELSE t

\* a query without its order clause: the rows in any order
Unordered(rows) == {q \in [1 .. Cardinality(rows) -> rows] : Range(q) = rows}

\* .order('scheduled_at', { ascending: true }): every order of the rows that is
\* ascending, rows of equal scheduled_at in any order
RECURSIVE Ascending(_)
Ascending(rows) ==
    IF rows = {} THEN {<<>>}
    ELSE LET first == {r \in rows : \A x \in rows : SortKey(r.scheduled_at) <= SortKey(x.scheduled_at)}
         IN  UNION {{<<r>> \o q : q \in Ascending(rows \ {r})} : r \in first}

\* .order('created_at', { ascending: false }): every order of the rows that is
\* descending, rows of equal created_at in any order
RECURSIVE NewestFirst(_)
NewestFirst(rows) ==
    IF rows = {} THEN {<<>>}
    ELSE LET first == {r \in rows : \A x \in rows : r.created_at >= x.created_at}
         IN  UNION {{<<r>> \o q : q \in NewestFirst(rows \ {r})} : r \in first}

----------------------------------------------------------------------------
(* Remote calls *)

\* snap: a value the caller's closure holds; live: the closure holds the Map object that
\* is the hook's current state, so that a later prev.set(...) on it shows through
Idle == [who |-> "none", op |-> "none", phase |-> "idle", at |-> 0, id |-> 0,
         fields |-> <<>>, items |-> <<>>, resp |-> <<>>, snap |-> <<>>, sel |-> {},
         live |-> FALSE]

NewCall(who, op, id, fields, items) ==
    [who |-> who, op |-> op, phase |-> "sent", at |-> now, id |-> id,
     fields |-> fields, items |-> items, resp |-> <<>>, snap |-> <<>>, sel |-> {},
     live |-> FALSE]

\* an insert; raw keeps the items as the caller passed them
InsertCall(who, raw, items) == [NewCall(who, "insert", 0, <<>>, items) EXCEPT !.snap = raw]

Free(s) == net[s].phase = "idle"

FreeSlot == CHOOSE s \in Slots : Free(s) /\ \A q \in Slots : Free(q) => s <= q

HasFree == \E s \in Slots : Free(s)

\* a caller that issues its call on every free connection
SendTwice(call) == [s \in Slots |-> IF Free(s) THEN call ELSE net[s]]

Send(call) == [net EXCEPT ![FreeSlot] = call]

\* rows asked for by the inserts not yet served
RowsInFlight ==
    LET n(s) == IF net[s].phase = "sent" /\ net[s].op = "insert" THEN Len(net[s].items) ELSE 0
    IN  n(1) + (IF MaxInflight >= 2 THEN n(2) ELSE 0) + (IF MaxInflight >= 3 THEN n(3) ELSE 0)

CanInsert(n) == nextId + RowsInFlight + n - 1 <= MaxId

\* thrown: the handler's promise was rejected, its catch block has thrown the error on
Event(who, res, id, errs) == [who |-> who, res |-> res, id |-> id, errs |-> errs, thrown |-> FALSE]

\* a handler whose catch block keeps the error to itself
Swallowed(who, id, errs) == Event(who, "err", id, errs)

\* a handler whose catch block ends with throw err
Rethrown(who, id, errs) == [Event(who, "err", id, errs) EXCEPT !.thrown = TRUE]

\* a step that is no handler of a remote call: a click, a keystroke, the server, the clock
Quiet == Event("none", "none", 0, 0)

----------------------------------------------------------------------------
(* ScheduleDisplay *)

NoRow == [id |-> 0, scheduled_at |-> NoTime, status |-> ""]

\* .select('id, scheduled_at, status')
SdPick(r) == [id |-> r.id, scheduled_at |-> r.scheduled_at, status |-> r.status]

convertUTCToIST(t) == IsoSlice16(t + IstShift)

convertISTToUTC(w) == ToISOString(ParseLocal(w) - IstShift)

validateDateTime(w) == ParseLocal(w) > now

SdUpdateFields(utc) == [scheduled_at |-> utc, status |-> "pending"]

SdInsertItem(utc) ==
    [content_id |-> sdContent, scheduled_at |-> utc, status |-> "pending", user_id |-> 1]

\* the buttons and the dialog are rendered only when loading is false
SdRendered == scene = "display" /\ ~sdLoading

SdOpenModal ==
    /\ SdRendered
    /\ sdInput' = IF sdRow # NoRow /\ sdRow.scheduled_at # NoTime
                  THEN convertUTCToIST(sdRow.scheduled_at)
                  ELSE IsoSlice16(now + 60)
    /\ sdError' = ""
    /\ sdModalOpen' = TRUE
    /\ evt' = Quiet
    /\ UNCHANGED <<envVars, notSd, now, table, nextId, net, sdContent, sdRow, sdLoading, sdUpdating>>

SdInputChange(w) ==
    /\ SdRendered /\ sdModalOpen
    /\ sdInput' = w
    /\ sdError' = ""
    /\ evt' = Quiet
    /\ UNCHANGED <<envVars, notSd, now, table, nextId, net, sdContent, sdRow, sdLoading, sdModalOpen, sdUpdating>>

SdCloseModal ==
    /\ SdRendered /\ sdModalOpen
    /\ sdModalOpen' = FALSE
    /\ evt' = Quiet
    /\ UNCHANGED <<envVars, notSd, now, table, nextId, net, sdContent, sdRow, sdLoading, sdUpdating, sdInput, sdError>>

handleUpdateSchedule ==
    /\ SdRendered /\ sdModalOpen /\ ~sdUpdating
    /\ IF sdInput = NoTime
       THEN /\ sdError' = "Please select a date and time"
            /\ evt' = Event("sdUpdate", "reject", sdRow.id, 0)
            /\ UNCHANGED <<net, sdUpdating>>
       ELSE IF ~validateDateTime(sdInput)
       THEN /\ sdError' = "Schedule time must be in the future"
            /\ evt' = Event("sdUpdate", "reject", sdRow.id, 0)
            /\ UNCHANGED <<net, sdUpdating>>
       ELSE /\ HasFree
            /\ sdRow = NoRow => CanInsert(1)
            /\ convertISTToUTC(sdInput) <= Horizon
            /\ sdUpdating' = TRUE
            /\ sdError' = ""
            /\ net' = Send(IF sdRow # NoRow
                           THEN NewCall("sdUpdate", "update", sdRow.id,
                                        SdUpdateFields(convertISTToUTC(sdInput)), <<>>)
                           ELSE InsertCall("sdUpdate", <<SdInsertItem(convertISTToUTC(sdInput))>>,
                                           <<SdInsertItem(convertISTToUTC(sdInput))>>))
            /\ evt' = Event("sdUpdate", "start", sdRow.id, 0)
    /\ UNCHANGED <<envVars, notSd, now, table, nextId, sdContent, sdRow, sdLoading, sdModalOpen, sdInput>>

\* handleUpdateSchedule with setIsUpdating(false) after the try block instead of in a
\* finally block
SdUpdateDoneNoFinally(s) ==
    /\ scene = "display"
    /\ net[s].who = "sdUpdate" /\ net[s].phase \in {"ok", "err"}
    /\ IF net[s].phase = "ok"
       THEN /\ sdModalOpen' = FALSE
            /\ sdLoading' = TRUE
            /\ net' = [net EXCEPT ![s] = NewCall("sdRefetch", "selectOne", sdContent, <<>>, <<>>)]
            /\ evt' = Event("sdUpdate", "ok", net[s].id, 0)
       ELSE /\ net' = [net EXCEPT ![s] = Idle]
            /\ evt' = Event("sdUpdate", "err", net[s].id, 1)
            /\ UNCHANGED <<sdModalOpen, sdLoading>>
    /\ UNCHANGED <<envVars, notSd, now, table, nextId, sdContent, sdRow, sdInput, sdError, sdUpdating>>

\* the continuation of handleUpdateSchedule after its update or insert
SdUpdateDone(s) ==
    /\ scene = "display"
    /\ net[s].who = "sdUpdate" /\ net[s].phase \in {"ok", "err"}
    /\ IF net[s].phase = "ok"
       THEN /\ sdModalOpen' = FALSE
            /\ sdLoading' = TRUE
            /\ net' = [net EXCEPT ![s] = NewCall("sdRefetch", "selectOne", sdContent, <<>>, <<>>)]
            /\ evt' = Event("sdUpdate", "ok", net[s].id, 0)
            /\ UNCHANGED sdUpdating
       ELSE /\ sdUpdating' = FALSE
            /\ net' = [net EXCEPT ![s] = Idle]
            /\ evt' = Event("sdUpdate", "err", net[s].id, 1)
            /\ UNCHANGED <<sdModalOpen, sdLoading>>
    /\ UNCHANGED <<envVars, notSd, now, table, nextId, sdContent, sdRow, sdInput, sdError>>

\* the continuation of fetchScheduleData; who = "sdRefetch" is the call awaited by
\* handleUpdateSchedule, whose finally block then clears isUpdating
SdFetchDone(s) ==
    /\ scene = "display"
    /\ net[s].who \in {"sdFetch", "sdRefetch"} /\ net[s].phase \in {"ok", "err"}
    /\ sdRow' = IF net[s].phase = "ok"
                THEN (IF Len(net[s].resp) = 1 THEN SdPick(net[s].resp[1]) ELSE NoRow)
                ELSE sdRow
    /\ sdLoading' = FALSE
    /\ sdUpdating' = IF net[s].who = "sdRefetch" THEN FALSE ELSE sdUpdating
    /\ net' = [net EXCEPT ![s] = Idle]
    /\ evt' = Event("sdFetch", net[s].phase, 0, 0)
    /\ UNCHANGED <<envVars, notSd, now, table, nextId, sdContent, sdModalOpen, sdInput, sdError>>

----------------------------------------------------------------------------
(* useScheduledContent (hooks/useScheduledContent.ts) *)

\* a hook that passes the item on as it came
KeepStatus(item) == item

\* status: item.status || 'pending'
WithDefaultStatus(item) ==
    [f \in DOMAIN item \cup {"status"} |->
        IF f = "status"
        THEN (IF "status" \in DOMAIN item /\ item.status \notin {NullStatus, ""}
              THEN item.status ELSE "pending")
        ELSE item[f]]

scheduleMultipleItems(items) == [i \in 1 .. Len(items) |-> WithDefaultStatus(items[i])]

\* an update that leaves the list as it was
KeepItems(list, id, data) == list

\* prev.map(item => item.id === id ? data : item)
ReplaceById(list, id, data) == [i \in 1 .. Len(list) |-> IF list[i].id = id THEN data ELSE list[i]]

\* a delete that leaves the list as it was
KeepAll(list, id) == list

\* prev.filter(item => item.id !== id)
RECURSIVE RemoveById(_, _)
RemoveById(list, id) ==
    IF list = <<>> THEN <<>>
    ELSE IF Head(list).id = id THEN RemoveById(Tail(list), id)
    ELSE <<Head(list)>> \o RemoveById(Tail(list), id)

ScScenes == {"posts", "schook"}

ScMutations == {"scheduleContent", "scheduleMultipleContent", "scheduleContentByIds",
                "updateScheduledContent", "deleteScheduledContent"}

\* the caller of the hook awaits each call it makes before it makes the next one; the
\* fetch of the mount effect is not the caller's and may still be in flight
ScCallerReady ==
    /\ scene = "schook" /\ HasFree
    /\ \A s \in Slots : net[s].who \notin ScMutations \cup {"scRefetch", "olderFetch"}

\* fetchScheduledContent, up to its await
ScFetchCall(who) == NewCall(who, "selectAll", 0, <<>>, <<>>)

\* the continuation of fetchScheduledContent; who = "ptRefresh" is the call awaited by
\* ScheduledPostsTab.handleRefresh, whose finally block clears isRefreshing
ScFetchDone(s) ==
    /\ scene \in ScScenes
    /\ net[s].who \in {"scFetch", "scRefetch", "olderFetch", "ptRefresh"}
    /\ net[s].phase \in {"ok", "err"}
    /\ scList' = IF net[s].phase = "ok" THEN net[s].resp ELSE scList
    /\ scError' = IF net[s].phase = "ok" THEN scError ELSE "error"
    /\ scLoading' = FALSE
    /\ ptRefreshing' = IF net[s].who = "ptRefresh" THEN FALSE ELSE ptRefreshing
    /\ net' = [net EXCEPT ![s] = Idle]
    /\ evt' = Event(net[s].who, net[s].phase, 0, IF net[s].phase = "err" THEN 1 ELSE 0)
    /\ UNCHANGED <<envVars, notSc, now, table, nextId, ptEditing, ptDialogOpen, ptInput, ptSaving>>

\* a caller of the hook asks for a fetch
ScFetchStart ==
    /\ ScCallerReady
    /\ scLoading' = TRUE
    /\ scError' = ""
    /\ net' = Send(ScFetchCall("scRefetch"))
    /\ evt' = Event("scRefetch", "start", 0, 0)
    /\ UNCHANGED <<envVars, notSc, now, table, nextId, scList, ptVars>>

\* fetchScheduledContent of the older useScheduledContent, which is kept in
\* hooks/useContentSchedules.ts: the same handler around a query ordered by created_at
fetchScheduledContentOlder ==
    /\ ScCallerReady
    /\ scLoading' = TRUE
    /\ scError' = ""
    /\ net' = Send(NewCall("olderFetch", "selectNewest", 0, <<>>, <<>>))
    /\ evt' = Event("olderFetch", "start", 0, 0)
    /\ UNCHANGED <<envVars, notSc, now, table, nextId, scList, ptVars>>

scheduleContent(item) ==
    /\ ScCallerReady /\ CanInsert(1)
    /\ net' = Send(InsertCall("scheduleContent", <<item>>, <<WithDefaultStatus(item)>>))
    /\ evt' = Event("scheduleContent", "start", 0, 0)
    /\ UNCHANGED <<envVars, notSc, now, table, nextId, scVars, ptVars>>

scheduleMultipleContent(items) ==
    /\ ScCallerReady /\ CanInsert(Len(items))
    /\ net' = Send(InsertCall("scheduleMultipleContent", items, scheduleMultipleItems(items)))
    /\ evt' = Event("scheduleMultipleContent", "start", 0, 0)
    /\ UNCHANGED <<envVars, notSc, now, table, nextId, scVars, ptVars>>

\* scheduleContent(contentIds, userId) of the older useScheduledContent, which is kept in
\* hooks/useContentSchedules.ts: items without scheduled_at, the new rows put in front
OlderItems(contentIds, userId) ==
    [i \in 1 .. Len(contentIds) |->
        [user_id |-> userId, content_id |-> contentIds[i], status |-> "pending"]]

scheduleContentByIds(contentIds, userId) ==
    /\ ScCallerReady /\ CanInsert(Len(contentIds))
    /\ net' = Send(InsertCall("scheduleContentByIds", OlderItems(contentIds, userId),
                              OlderItems(contentIds, userId)))
    /\ evt' = Event("scheduleContentByIds", "start", 0, 0)
    /\ UNCHANGED <<envVars, notSc, now, table, nextId, scVars, ptVars>>

updateScheduledContent(id, updates) ==
    /\ ScCallerReady
    /\ net' = Send(NewCall("updateScheduledContent", "updateOne", id, updates, <<>>))
    /\ evt' = Event("updateScheduledContent", "start", id, 0)
    /\ UNCHANGED <<envVars, notSc, now, table, nextId, scVars, ptVars>>

deleteScheduledContent(id) ==
    /\ ScCallerReady
    /\ net' = Send(NewCall("deleteScheduledContent", "delete", id, <<>>, <<>>))
    /\ evt' = Event("deleteScheduledContent", "start", id, 0)
    /\ UNCHANGED <<envVars, notSc, now, table, nextId, scVars, ptVars>>

\* what a mutation of the hook does to the list once its remote call has succeeded
ScPatched(list, c) ==
    CASE c.op = "insert" -> IF c.who = "scheduleContentByIds" THEN c.resp \o list
                            ELSE list \o c.resp
      [] c.op = "updateOne" -> ReplaceById(list, c.id, c.resp[1])
      [] c.op = "delete" -> RemoveById(list, c.id)

\* the continuation of a mutation called on the hook directly: on failure one toast
\* and the error is thrown to the caller
ScMutationDone(s) ==
    /\ scene = "schook"
    /\ net[s].who \in ScMutations
    /\ net[s].phase \in {"ok", "err"}
    /\ scList' = IF net[s].phase = "ok" THEN ScPatched(scList, net[s]) ELSE scList
    /\ net' = [net EXCEPT ![s] = Idle]
    /\ evt' = IF net[s].phase = "ok" THEN Event(net[s].who, "ok", net[s].id, 0)
              ELSE Rethrown(net[s].who, net[s].id, 1)
    /\ UNCHANGED <<envVars, notSc, now, table, nextId, scLoading, scError, ptVars>>

----------------------------------------------------------------------------
(* ScheduledPostsTab (the version with the edit dialog) *)

\* a tab that maps over scheduledContent itself
AllScheduledContent == scList

\* scheduledContent.filter(item => currentUser && item.user_id === currentUser.id)
userScheduledContent == SelectSeq(scList, LAMBDA r : user # NoUser /\ r.user_id = user)

\* the card with the table and the dialog replaces the spinner when loading is false
PtRendered == scene = "posts" /\ ~scLoading

\* new Date(date.getTime() - date.getTimezoneOffset() * 60000).toISOString().slice(0, 16)
PtLocalInput(t) == IsoSlice16(t + tz)

PtSaveFields(w) == [scheduled_at |-> ToISOString(ParseLocal(w))]

handleRefresh ==
    /\ PtRendered /\ ~ptRefreshing /\ HasFree
    /\ ptRefreshing' = TRUE
    /\ scLoading' = TRUE
    /\ scError' = ""
    /\ net' = Send(ScFetchCall("ptRefresh"))
    /\ evt' = Event("ptRefresh", "start", 0, 0)
    /\ UNCHANGED <<envVars, notSc, now, table, nextId, scList, ptEditing, ptDialogOpen, ptInput, ptSaving>>

\* the Edit button is shown on the rows whose status is 'pending'
handleEditPost(post) ==
    /\ PtRendered
    /\ post \in Range(userScheduledContent) /\ post.status = "pending"
    /\ ptEditing' = post.id
    /\ ptInput' = IF post.scheduled_at # NoTime THEN PtLocalInput(post.scheduled_at)
                                               ELSE PtLocalInput(now + 60)
    /\ ptDialogOpen' = TRUE
    /\ evt' = Quiet
    /\ UNCHANGED <<envVars, notSc, now, table, nextId, net, scVars, ptRefreshing, ptSaving>>

PtInputChange(w) ==
    /\ PtRendered /\ ptDialogOpen
    /\ ptInput' = w
    /\ evt' = Quiet
    /\ UNCHANGED <<envVars, notSc, now, table, nextId, net, scVars, ptRefreshing, ptEditing, ptDialogOpen, ptSaving>>

handleCancelEdit ==
    /\ PtRendered /\ ptDialogOpen
    /\ ptDialogOpen' = FALSE
    /\ ptEditing' = 0
    /\ ptInput' = NoTime
    /\ evt' = Quiet
    /\ UNCHANGED <<envVars, notSc, now, table, nextId, net, scVars, ptRefreshing, ptSaving>>

\* Save is disabled while isSaving or while the input is empty
PtSaveSchedule ==
    /\ PtRendered /\ ptDialogOpen /\ ~ptSaving /\ ptInput # NoTime
    /\ IF ptEditing = 0 \/ ptInput = NoTime
       THEN /\ evt' = Event("ptSave", "reject", ptEditing, 1)
            /\ UNCHANGED <<net, ptSaving>>
       ELSE IF ParseLocal(ptInput) <= now
       THEN /\ evt' = Event("ptSave", "reject", ptEditing, 1)
            /\ UNCHANGED <<net, ptSaving>>
       ELSE /\ HasFree
            /\ ParseLocal(ptInput) <= Horizon
            /\ ptSaving' = TRUE
            /\ net' = Send(NewCall("ptSave", "updateOne", ptEditing, PtSaveFields(ptInput), <<>>))
            /\ evt' = Event("ptSave", "start", ptEditing, 0)
    /\ UNCHANGED <<envVars, notSc, now, table, nextId, scVars, ptRefreshing, ptEditing, ptDialogOpen, ptInput>>

\* the continuation of handleSaveSchedule: updateScheduledContent patches the list, or
\* shows its error toast and throws, and the catch block of the component shows another
PtSaveDone(s) ==
    /\ scene = "posts"
    /\ net[s].who = "ptSave" /\ net[s].phase \in {"ok", "err"}
    /\ IF net[s].phase = "ok"
       THEN /\ scList' = ReplaceById(scList, net[s].id, net[s].resp[1])
            /\ ptDialogOpen' = FALSE
            /\ ptEditing' = 0
            /\ ptInput' = NoTime
            /\ evt' = Event("ptSave", "ok", net[s].id, 0)
       ELSE /\ evt' = Event("ptSave", "err", net[s].id, 2)
            /\ UNCHANGED <<scList, ptDialogOpen, ptEditing, ptInput>>
    /\ ptSaving' = FALSE
    /\ net' = [net EXCEPT ![s] = Idle]
    /\ UNCHANGED <<envVars, notSc, now, table, nextId, scLoading, scError, ptRefreshing>>

----------------------------------------------------------------------------
(* useContentSchedules (hooks/useContentSchedules.ts) *)

\* contentSchedules.get(contentId) of a content that is not a key of the map
NoEntry == [contentId |-> 0, schedules |-> <<>>, hasSchedule |-> FALSE, nextSchedule |-> NoTime]

\* schedule.status || 'pending'
CsStatus(st) == IF st \in {NullStatus, ""} THEN "pending" ELSE st

CsItem(r) ==
    [id |-> r.id, scheduled_at |-> r.scheduled_at, status |-> CsStatus(r.status),
     posted_at |-> r.posted_at]

\* the entry fetchContentSchedules builds for one requested content from the rows returned
CsEntry(c, data) ==
    LET mine == SelectSeq(data, LAMBDA r : r.content_id = c)
        items == [i \in 1 .. Len(mine) |-> CsItem(mine[i])]
    IN  [contentId |-> c, schedules |-> items, hasSchedule |-> items # <<>>,
         nextSchedule |-> IF items = <<>> THEN NoTime ELSE items[1].scheduled_at]

\* a map that has an entry only for the contents the answer has rows of
CsMapOfAnswered(ids, data) ==
    [c \in Contents |-> IF \E i \in DOMAIN data : data[i].content_id = c THEN CsEntry(c, data)
                        ELSE NoEntry]

\* the map fetchContentSchedules builds: an entry for every requested id and no other
CsScheduleMap(ids, data) == [c \in Contents |-> IF c \in ids THEN CsEntry(c, data) ELSE NoEntry]

getScheduleInfo(c) ==
    IF csMap[c] # NoEntry THEN csMap[c]
    ELSE [contentId |-> c, schedules |-> <<>>, hasSchedule |-> FALSE, nextSchedule |-> NoTime]

\* an update that leaves the schedules in the order they had
AsListed(list) == list

\* Array.prototype.sort by scheduled_at: a stable sort
RECURSIVE InsertByTime(_, _)
InsertByTime(x, sorted) ==
    IF sorted = <<>> THEN <<x>>
    ELSE IF x.scheduled_at < Head(sorted).scheduled_at THEN <<x>> \o sorted
    ELSE <<Head(sorted)>> \o InsertByTime(x, Tail(sorted))

RECURSIVE SortByTime(_)
SortByTime(list) ==
    IF list = <<>> THEN <<>>
    ELSE InsertByTime(list[Len(list)], SortByTime(SubSeq(list, 1, Len(list) - 1)))

\* updateSchedule, after the update: the entry of the closure's map with the time replaced
CsUpdatedInfo(existing, scheduleId, newScheduledAt) ==
    LET updatedSchedules ==
            SortByTime([i \in 1 .. Len(existing.schedules) |->
                IF existing.schedules[i].id = scheduleId
                THEN [existing.schedules[i] EXCEPT !.scheduled_at = newScheduledAt]
                ELSE existing.schedules[i]])
    IN  [existing EXCEPT !.schedules = updatedSchedules,
                         !.nextSchedule = IF updatedSchedules = <<>> THEN NoTime
                                          ELSE updatedSchedules[1].scheduled_at]

\* deleteSchedule, after the delete: the entry of the closure's map without the schedule
CsDeletedInfo(existing, scheduleId) ==
    LET updatedSchedules == SelectSeq(existing.schedules, LAMBDA x : x.id # scheduleId)
    IN  [existing EXCEPT !.schedules = updatedSchedules,
                         !.hasSchedule = updatedSchedules # <<>>,
                         !.nextSchedule = IF updatedSchedules = <<>> THEN NoTime
                                          ELSE updatedSchedules[1].scheduled_at]

\* const existing = contentSchedules.get(contentId): c.snap is the contentSchedules of the
\* render whose updateSchedule or deleteSchedule was called
CsExisting(c) ==
    LET contentId == IF c.op = "updateOne" THEN c.resp[1].content_id ELSE c.sel
    IN  IF contentId \in Contents THEN c.snap[contentId] ELSE NoEntry

\* the map after a mutation of the hook has succeeded
CsPatched(c) ==
    LET contentId == IF c.op = "updateOne" THEN c.resp[1].content_id ELSE c.sel
        existing == CsExisting(c)
    IN  IF existing = NoEntry THEN csMap
        ELSE [csMap EXCEPT ![contentId] =
                 IF c.op = "updateOne"
                 THEN CsUpdatedInfo(existing, c.id, c.fields.scheduled_at)
                 ELSE CsDeletedInfo(existing, c.id)]

\* setContentSchedules(prev => new Map(prev.set(contentId, updatedInfo))): prev.set writes
\* into the Map that was the state, which the closures of that render still hold, and the
\* state becomes a copy of it; the calls done with, slot s is free
CsAfterSet(s, map) ==
    [q \in Slots |->
        IF q = s THEN Idle
        ELSE IF net[q].live THEN [net[q] EXCEPT !.snap = map, !.live = FALSE]
        ELSE net[q]]

\* setContentSchedules(scheduleMap): the state becomes a new Map, the old one is left alone
CsAfterReplace(s) ==
    [q \in Slots |-> IF q = s THEN Idle ELSE [net[q] EXCEPT !.live = FALSE]]

CsUpdateCall(who, scheduleId, newScheduledAt) ==
    [NewCall(who, "updateOne", scheduleId, [scheduled_at |-> newScheduledAt], <<>>)
        EXCEPT !.snap = csMap, !.live = TRUE]

CsDeleteCall(who, scheduleId, contentId) ==
    [NewCall(who, "delete", scheduleId, <<>>, <<>>)
        EXCEPT !.snap = csMap, !.sel = contentId, !.live = TRUE]

CsMutations == {"updateSchedule", "deleteSchedule"}

\* the caller of the hook awaits each call before it makes the next one
CsCallerReady == scene = "cshook" /\ \A s \in Slots : Free(s)

fetchContentSchedules(contentIds) ==
    /\ CsCallerReady
    /\ IF contentIds = {}
       THEN /\ evt' = Event("fetchContentSchedules", "skip", 0, 0)
            /\ UNCHANGED <<net, csLoading>>
       ELSE /\ csLoading' = TRUE
            /\ net' = Send([NewCall("fetchContentSchedules", "selectIn", 0, <<>>, <<>>)
                               EXCEPT !.sel = contentIds])
            /\ evt' = Event("fetchContentSchedules", "start", 0, 0)
    /\ UNCHANGED <<envVars, notCs, now, table, nextId, csMap, cmVars>>

CsFetchDone(s) ==
    /\ scene = "cshook"
    /\ net[s].who = "fetchContentSchedules" /\ net[s].phase \in {"ok", "err"}
    /\ csMap' = IF net[s].phase = "ok" THEN CsScheduleMap(net[s].sel, net[s].resp) ELSE csMap
    /\ csLoading' = FALSE
    /\ net' = IF net[s].phase = "ok" THEN CsAfterReplace(s) ELSE [net EXCEPT ![s] = Idle]
    /\ evt' = Event(net[s].who, net[s].phase, 0, IF net[s].phase = "err" THEN 1 ELSE 0)
    /\ UNCHANGED <<envVars, notCs, now, table, nextId, cmVars>>

updateSchedule(scheduleId, newScheduledAt) ==
    /\ CsCallerReady
    /\ net' = Send(CsUpdateCall("updateSchedule", scheduleId, newScheduledAt))
    /\ evt' = Event("updateSchedule", "start", scheduleId, 0)
    /\ UNCHANGED <<envVars, notCs, now, table, nextId, csVars, cmVars>>

deleteSchedule(scheduleId, contentId) ==
    /\ CsCallerReady
    /\ net' = Send(CsDeleteCall("deleteSchedule", scheduleId, contentId))
    /\ evt' = Event("deleteSchedule", "start", scheduleId, 0)
    /\ UNCHANGED <<envVars, notCs, now, table, nextId, csVars, cmVars>>

\* a caller that does not await: it starts updates and deletes while earlier ones run
CsOverlapReady ==
    /\ scene = "cshook" /\ HasFree
    /\ \A s \in Slots : net[s].who \in CsMutations \cup {"none"}

updateScheduleUnawaited(scheduleId, newScheduledAt) ==
    /\ CsOverlapReady
    /\ net' = Send(CsUpdateCall("updateSchedule", scheduleId, newScheduledAt))
    /\ evt' = Event("updateSchedule", "start", scheduleId, 0)
    /\ UNCHANGED <<envVars, notCs, now, table, nextId, csVars, cmVars>>

deleteScheduleUnawaited(scheduleId, contentId) ==
    /\ CsOverlapReady
    /\ net' = Send(CsDeleteCall("deleteSchedule", scheduleId, contentId))
    /\ evt' = Event("deleteSchedule", "start", scheduleId, 0)
    /\ UNCHANGED <<envVars, notCs, now, table, nextId, csVars, cmVars>>

\* the continuation of updateSchedule or deleteSchedule called on the hook directly
CsMutationDone(s) ==
    /\ scene = "cshook"
    /\ net[s].who \in CsMutations /\ net[s].phase \in {"ok", "err"}
    /\ csMap' = IF net[s].phase = "ok" THEN CsPatched(net[s]) ELSE csMap
    /\ net' = IF net[s].phase = "ok" /\ CsExisting(net[s]) # NoEntry
              THEN CsAfterSet(s, CsPatched(net[s]))
              ELSE [net EXCEPT ![s] = Idle]
    /\ evt' = IF net[s].phase = "ok" THEN Event(net[s].who, "ok", net[s].id, 0)
              ELSE Rethrown(net[s].who, net[s].id, 1)
    /\ UNCHANGED <<envVars, notCs, now, table, nextId, csLoading, cmVars>>

----------------------------------------------------------------------------
(* ContentScheduleModal; it has a useContentSchedules of its own, whose map nothing fills *)

\* editingSchedule null
NoEdit == [id |-> 0, date |-> NoTime, time |-> NoTime]

\* the local midnight of the day of a wall-clock reading
DayStart(w) == (w \div MinutesPerDay) * MinutesPerDay

\* format(date, "HH:mm")
TimeOfDay(w) == w % MinutesPerDay

\* new Date(date).setHours(hours, minutes, 0, 0): the local day of date at the given
\* time; a date is kept as the local midnight of its day, which is all setHours,
\* format(date, "MMM dd, yyyy") and the calendar use of it
SetHours(date, time) == ParseLocal(DayStart(date) + time)

\* the days the calendar offers: not before today's local midnight
CmCalendarDays == {DayStart(now + tz) + k * MinutesPerDay : k \in 0 .. 1}

CmTimes == {60}

\* the schedule shown in edit mode, if any
CmEditRow == {i \in 1 .. Len(cmInfo.schedules) : cmInfo.schedules[i].id = cmEditing.id}

\* what the parent passes as scheduleInfo: the future schedules of the content
CmParentInfo(c) ==
    {CsEntry(c, q) : q \in Ascending({r \in table : /\ r.content_id = c
                                                   /\ r.scheduled_at # NoTime
                                                   /\ r.scheduled_at >= now})}

CmOpenModal ==
    /\ scene = "modal" /\ ~cmOpen
    /\ cmOpen' = TRUE
    /\ evt' = Quiet
    /\ UNCHANGED <<envVars, notCs, now, table, nextId, net, csVars, cmInfo, cmUpdating, cmEditing>>

\* onClose, and the effect on isOpen
CmCloseModal ==
    /\ scene = "modal" /\ cmOpen
    /\ cmOpen' = FALSE
    /\ cmEditing' = NoEdit
    /\ evt' = Quiet
    /\ UNCHANGED <<envVars, notCs, now, table, nextId, net, csVars, cmInfo, cmUpdating>>

\* the parent renders the modal with a scheduleInfo it has fetched again
CmPropsChange ==
    /\ scene = "modal"
    /\ \E info \in CmParentInfo(cmInfo.contentId) : info # cmInfo /\ cmInfo' = info
    /\ evt' = Quiet
    /\ UNCHANGED <<envVars, notCs, now, table, nextId, net, csVars, cmOpen, cmUpdating, cmEditing>>

CmEditSchedule(schedule) ==
    /\ scene = "modal" /\ cmOpen
    /\ schedule \in Range(cmInfo.schedules) /\ schedule.id # cmEditing.id
    /\ cmEditing' = [id |-> schedule.id,
                     date |-> DayStart(IsoSlice16(schedule.scheduled_at + tz)),
                     time |-> TimeOfDay(IsoSlice16(schedule.scheduled_at + tz))]
    /\ evt' = Quiet
    /\ UNCHANGED <<envVars, notCs, now, table, nextId, net, csVars, cmOpen, cmInfo, cmUpdating>>

\* Calendar onSelect: a day, or undefined when the selected day is clicked again
CmPickDate(d) ==
    /\ scene = "modal" /\ cmOpen /\ CmEditRow # {}
    /\ d \in CmCalendarDays \cup {NoTime}
    /\ d = NoTime => cmEditing.date # NoTime
    /\ cmEditing' = [cmEditing EXCEPT !.date = d]
    /\ evt' = Quiet
    /\ UNCHANGED <<envVars, notCs, now, table, nextId, net, csVars, cmOpen, cmInfo, cmUpdating>>

CmSetTime(m) ==
    /\ scene = "modal" /\ cmOpen /\ CmEditRow # {}
    /\ cmEditing' = [cmEditing EXCEPT !.time = m]
    /\ evt' = Quiet
    /\ UNCHANGED <<envVars, notCs, now, table, nextId, net, csVars, cmOpen, cmInfo, cmUpdating>>

CmCancelEdit ==
    /\ scene = "modal" /\ cmOpen /\ CmEditRow # {}
    /\ cmEditing' = NoEdit
    /\ evt' = Quiet
    /\ UNCHANGED <<envVars, notCs, now, table, nextId, net, csVars, cmOpen, cmInfo, cmUpdating>>

\* handleSaveSchedule of the modal.  With an empty time, split(':').map(Number) gives
\* [0], setHours(0, undefined) makes the date invalid, an invalid date is not <= now, and
\* toISOString() throws inside the try: isUpdating goes up and down and nothing is sent
CmSaveSchedule ==
    /\ scene = "modal" /\ cmOpen /\ CmEditRow # {} /\ ~cmUpdating
    /\ IF cmEditing.date = NoTime
       THEN /\ evt' = Event("cmSave", "reject", cmEditing.id, 1)
            /\ UNCHANGED <<net, cmUpdating>>
       ELSE IF cmEditing.time = NoTime
       THEN /\ evt' = Event("cmSave", "throw", cmEditing.id, 0)
            /\ UNCHANGED <<net, cmUpdating>>
       ELSE IF SetHours(cmEditing.date, cmEditing.time) <= now
       THEN /\ evt' = Event("cmSave", "reject", cmEditing.id, 1)
            /\ UNCHANGED <<net, cmUpdating>>
       ELSE /\ HasFree
            /\ SetHours(cmEditing.date, cmEditing.time) <= Horizon
            /\ cmUpdating' = TRUE
            /\ net' = Send(CsUpdateCall("cmSave", cmEditing.id,
                               ToISOString(SetHours(cmEditing.date, cmEditing.time))))
            /\ evt' = Event("cmSave", "start", cmEditing.id, 0)
    /\ UNCHANGED <<envVars, notCs, now, table, nextId, csVars, cmOpen, cmInfo, cmEditing>>

\* Delete is offered on the schedules shown in view mode
CmDeleteSchedule(scheduleId) ==
    /\ scene = "modal" /\ cmOpen /\ ~cmUpdating /\ HasFree
    /\ scheduleId \in {x.id : x \in Range(cmInfo.schedules)} /\ scheduleId # cmEditing.id
    /\ cmUpdating' = TRUE
    /\ net' = Send(CsDeleteCall("cmDelete", scheduleId, cmInfo.contentId))
    /\ evt' = Event("cmDelete", "start", scheduleId, 0)
    /\ UNCHANGED <<envVars, notCs, now, table, nextId, csVars, cmOpen, cmInfo, cmEditing>>

\* the continuation of handleSaveSchedule or handleDeleteSchedule: the hook patches its
\* map or shows its error toast and throws; the catch block of the modal shows nothing
CmMutationDone(s) ==
    /\ scene = "modal"
    /\ net[s].who \in {"cmSave", "cmDelete"} /\ net[s].phase \in {"ok", "err"}
    /\ csMap' = IF net[s].phase = "ok" THEN CsPatched(net[s]) ELSE csMap
    /\ cmEditing' = IF net[s].phase = "ok" /\ net[s].who = "cmSave" THEN NoEdit ELSE cmEditing
    /\ cmUpdating' = FALSE
    /\ net' = [net EXCEPT ![s] = Idle]
    /\ evt' = Event(net[s].who, net[s].phase, net[s].id, IF net[s].phase = "err" THEN 1 ELSE 0)
    /\ UNCHANGED <<envVars, notCs, now, table, nextId, csLoading, cmOpen, cmInfo>>

----------------------------------------------------------------------------
(* ScheduleContentDialog: version 1 is components/ScheduleContentDialog.tsx, version 2  *)
(* validates as the user types, version 3 has no platform field and resets on close.     *)
(* The dialog has a useScheduledContent of its own.                                      *)

DefaultTime == 9 * 60            \* time: "09:00"

DefaultPlatform == "linkedin"    \* content.platform || "linkedin"

DlPlatform(v) == IF v = 3 THEN "" ELSE DefaultPlatform

\* selectedContent.map(content => ({contentId, date: undefined, time: "09:00", ...}))
DlInitial(v, selected) ==
    [i \in 1 .. Len(selected) |->
        [contentId |-> selected[i], date |-> NoTime, time |-> DefaultTime,
         platform |-> DlPlatform(v), isValid |-> FALSE]]

\* date >= new Date().setHours(0, 0, 0, 0)
DlDateValid(d) == d # NoTime /\ d >= DayStart(now + tz)

\* updateContentSchedule: the field is set and, from version 2 on, isValid is computed
\* again from the values and the clock of this moment; version 3 has no platform control
DlUpdated(sch, field, value) ==
    LET updated == [sch EXCEPT ![field] = value]
    IN  IF dlVersion = 1 THEN updated
        ELSE IF field \in {"date", "time"}
        THEN [updated EXCEPT !.isValid = /\ DlDateValid(updated.date)
                                         /\ updated.time # NoTime
                                         /\ (dlVersion = 2 => updated.platform # "")]
        ELSE IF dlVersion = 2
        THEN [updated EXCEPT !.isValid = /\ DlDateValid(updated.date)
                                         /\ updated.time # NoTime
                                         /\ value # ""]
        ELSE updated

\* what handleSubmit and isFormValid ask of one schedule
DlScheduleOk(sch) ==
    IF dlVersion = 1 THEN sch.date # NoTime /\ sch.time # NoTime /\ sch.platform # ""
    ELSE sch.isValid

isFormValid ==
    /\ dlVersion = 3 => dlSchedules # <<>>
    /\ \A i \in 1 .. Len(dlSchedules) : DlScheduleOk(dlSchedules[i])

\* version 3 renders nothing while no content is selected
DlRendered == scene = "dialog" /\ dlOpen /\ (dlVersion = 3 => dlSelected # <<>>)

\* the schedules that have their controls on the screen
DlShown == {i \in 1 .. Len(dlSchedules) : dlSchedules[i].contentId \in Range(dlSelected)}

\* whether the calendar offers today: version 1 disables date < new Date(), the later
\* versions date < today's midnight
DlCalendarDays ==
    {d \in {DayStart(now + tz)} :
        IF dlVersion = 1 THEN ParseLocal(d) >= now ELSE d >= DayStart(now + tz)}

\* the items handleSubmit passes to scheduleMultipleContent
DlItems ==
    [i \in 1 .. Len(dlSchedules) |->
        [user_id |-> user, content_id |-> dlSchedules[i].contentId,
         scheduled_at |-> ToISOString(SetHours(dlSchedules[i].date, dlSchedules[i].time)),
         status |-> "pending"]]

\* the parent passes another selectedContent; the effect of version 3 on selectedContent
DlParentSelect(selected) ==
    /\ scene = "dialog"
    /\ dlVersion # 3 => selected # dlSelected
    /\ dlSelected' = selected
    /\ dlSchedules' = IF dlVersion = 3 /\ selected # <<>> THEN DlInitial(3, selected)
                      ELSE dlSchedules
    /\ evt' = Quiet
    /\ UNCHANGED <<envVars, notDl, now, table, nextId, net, scVars, dlVersion, dlOpen, dlSubmitting>>

DlOpenDialog ==
    /\ scene = "dialog" /\ ~dlOpen
    /\ dlOpen' = TRUE
    /\ evt' = Quiet
    /\ UNCHANGED <<envVars, notDl, now, table, nextId, net, scVars, dlVersion, dlSelected, dlSchedules, dlSubmitting>>

\* what the parent's onClose does to the dialog: isOpen false, and in version 3 the effect
\* on isOpen empties contentSchedules and clears isSubmitting
DlClosedSchedules == IF dlVersion = 3 THEN <<>> ELSE dlSchedules

DlCloseDialog ==
    /\ scene = "dialog" /\ dlOpen
    /\ dlOpen' = FALSE
    /\ dlSchedules' = DlClosedSchedules
    /\ dlSubmitting' = IF dlVersion = 3 THEN FALSE ELSE dlSubmitting
    /\ evt' = Quiet
    /\ UNCHANGED <<envVars, notDl, now, table, nextId, net, scVars, dlVersion, dlSelected>>

updateContentSchedule(contentId, field, value) ==
    /\ DlRendered
    /\ field = "platform" => dlVersion # 3
    /\ \E i \in DlShown : dlSchedules[i].contentId = contentId
    /\ dlSchedules' = [i \in 1 .. Len(dlSchedules) |->
                          IF dlSchedules[i].contentId = contentId
                          THEN DlUpdated(dlSchedules[i], field, value)
                          ELSE dlSchedules[i]]
    /\ dlSchedules' # dlSchedules
    /\ evt' = Quiet
    /\ UNCHANGED <<envVars, notDl, now, table, nextId, net, scVars, dlVersion, dlOpen, dlSelected, dlSubmitting>>

\* Submit is disabled unless isFormValid and not isSubmitting
handleSubmit ==
    /\ DlRendered /\ isFormValid /\ ~dlSubmitting
    /\ IF \E i \in 1 .. Len(dlSchedules) : ~DlScheduleOk(dlSchedules[i])
       THEN /\ evt' = Event("dlSubmit", "reject", 0, IF dlVersion = 1 THEN 0 ELSE 1)
            /\ UNCHANGED <<net, dlSubmitting>>
       ELSE IF user = NoUser
       THEN /\ evt' = Event("dlSubmit", "reject", 0, IF dlVersion = 1 THEN 0 ELSE 1)
            /\ UNCHANGED <<net, dlSubmitting>>
       ELSE /\ HasFree /\ CanInsert(Len(dlSchedules))
            /\ dlSubmitting' = TRUE
            /\ net' = Send([InsertCall("dlSubmit", DlItems, scheduleMultipleItems(DlItems))
                               EXCEPT !.sel = Range(dlSelected)])
            /\ evt' = Event("dlSubmit", "start", 0, 0)
    /\ UNCHANGED <<envVars, notDl, now, table, nextId, scVars, dlVersion, dlOpen, dlSelected, dlSchedules>>

\* the continuation of handleSubmit: scheduleMultipleContent appends the new rows and the
\* dialog calls onClose, or the hook shows its error toast and throws; finally
DlSubmitDone(s) ==
    /\ scene = "dialog"
    /\ net[s].who = "dlSubmit" /\ net[s].phase \in {"ok", "err"}
    /\ IF net[s].phase = "ok"
       THEN /\ scList' = scList \o net[s].resp
            /\ dlOpen' = FALSE
            /\ dlSchedules' = IF dlOpen THEN DlClosedSchedules ELSE dlSchedules
            /\ evt' = Event("dlSubmit", "ok", 0, 0)
       ELSE /\ evt' = Event("dlSubmit", "err", 0, 1)
            /\ UNCHANGED <<scList, dlOpen, dlSchedules>>
    /\ dlSubmitting' = FALSE
    /\ net' = [net EXCEPT ![s] = Idle]
    /\ UNCHANGED <<envVars, notDl, now, table, nextId, scLoading, scError, dlVersion, dlSelected>>

----------------------------------------------------------------------------
(* UpdateScheduleDialog.  onUpdate and convertUTCToIST are props: the parent is not in   *)
(* the repository, so onUpdate is a call that resolves or rejects and convertUTCToIST is *)
(* the function of that name in ScheduleDisplay.                                         *)

\* the effect on [isOpen, contentData, convertUTCToIST]
UdInitialInput(open) ==
    IF open /\ udCurrent # NoTime THEN convertUTCToIST(udCurrent) ELSE udInput

\* validateDateTime of the dialog: the message, "" when the input is accepted
UdValidate(w) ==
    IF w = NoTime THEN "Please select a date and time"
    ELSE IF ParseLocal(w) <= now THEN "Scheduled time must be in the future"
    ELSE ""

UdOpenDialog ==
    /\ scene = "upd" /\ ~udOpen
    /\ udOpen' = TRUE
    /\ udInput' = UdInitialInput(TRUE)
    /\ udError' = ""
    /\ evt' = Quiet
    /\ UNCHANGED <<envVars, notUd, now, table, nextId, net, udCurrent, udUpdating>>

\* onClose, and the effect on isOpen: the input, the message and isUpdating are reset
UdCloseDialog ==
    /\ scene = "upd" /\ udOpen
    /\ udOpen' = FALSE
    /\ udInput' = NoTime
    /\ udError' = ""
    /\ udUpdating' = FALSE
    /\ evt' = Quiet
    /\ UNCHANGED <<envVars, notUd, now, table, nextId, net, udCurrent>>

handleDateTimeChange(w) ==
    /\ scene = "upd" /\ udOpen
    /\ udInput' = w
    /\ udError' = ""
    /\ evt' = Quiet
    /\ UNCHANGED <<envVars, notUd, now, table, nextId, net, udOpen, udCurrent, udUpdating>>

\* Save Changes is disabled while isUpdating or while the input is empty
handleSave ==
    /\ scene = "upd" /\ udOpen /\ ~udUpdating /\ udInput # NoTime
    /\ IF UdValidate(udInput) # ""
       THEN /\ udError' = UdValidate(udInput)
            /\ evt' = Event("udSave", "reject", 0, 0)
            /\ UNCHANGED <<net, udUpdating>>
       ELSE /\ HasFree
            /\ udUpdating' = TRUE
            /\ net' = Send(NewCall("udSave", "onUpdate", 0, [input |-> udInput], <<>>))
            /\ evt' = Event("udSave", "start", 0, 0)
            /\ UNCHANGED udError
    /\ UNCHANGED <<envVars, notUd, now, table, nextId, udOpen, udCurrent, udInput>>

\* the continuation of handleSave: onClose when onUpdate resolved, console.error when it
\* rejected; finally
\* a handleSave that calls onClose after the try block, whatever onUpdate came to
UdSaveDoneThenClose(s) ==
    /\ scene = "upd"
    /\ net[s].who = "udSave" /\ net[s].phase \in {"ok", "err"}
    /\ udOpen' = FALSE
    /\ udInput' = IF udOpen THEN NoTime ELSE udInput
    /\ udError' = IF udOpen THEN "" ELSE udError
    /\ udUpdating' = FALSE
    /\ net' = [net EXCEPT ![s] = Idle]
    /\ evt' = Event("udSave", net[s].phase, 0, 0)
    /\ UNCHANGED <<envVars, notUd, now, table, nextId, udCurrent>>

UdSaveDone(s) ==
    /\ scene = "upd"
    /\ net[s].who = "udSave" /\ net[s].phase \in {"ok", "err"}
    /\ IF net[s].phase = "ok"
       THEN /\ udOpen' = FALSE
            /\ udInput' = IF udOpen THEN NoTime ELSE udInput
            /\ udError' = IF udOpen THEN "" ELSE udError
       ELSE UNCHANGED <<udOpen, udInput, udError>>
    /\ udUpdating' = FALSE
    /\ net' = [net EXCEPT ![s] = Idle]
    /\ evt' = Event("udSave", net[s].phase, 0, 0)
    /\ UNCHANGED <<envVars, notUd, now, table, nextId, udCurrent>>

----------------------------------------------------------------------------
(* DateTimePicker (components/ui/date-time-picker.tsx) *)

\* a Date: an instant in minutes, with what it has of seconds and milliseconds; undefined;
\* or an Invalid Date
DpDate(t, s) == [kind |-> "date", t |-> t, s |-> s]
DpUndefined == [kind |-> "undefined", t |-> 0, s |-> 0]
DpInvalid == [kind |-> "invalid", t |-> 0, s |-> 0]

\* a time value is "HH:mm" as minutes of the day, or NoTime for the empty string that a
\* cleared <input type="time"> gives
DpState(selectedDate, timeValue, passed) ==
    [selectedDate |-> selectedDate, timeValue |-> timeValue, passed |-> passed,
     mounted |-> TRUE]

\* const [hours, minutes] = v.split(':').map(Number); d = new Date(date);
\* d.setHours(hours, minutes, 0, 0): of "" the minutes are undefined and the Date invalid
DpSetHours(date, timeValue) ==
    IF date.kind # "date" \/ timeValue = NoTime THEN DpInvalid
    ELSE DpDate(ParseLocal(DayStart(date.t + tz) + (timeValue \div 60) * 60 + (timeValue % 60)), 0)

\* the render after a state change: format(selectedDate, "PPP") throws a RangeError on an
\* Invalid Date, which unmounts the component
DpRender(st) == [st EXCEPT !.mounted = st.selectedDate.kind # "invalid"]

\* handleDateSelect(newDate), as a function of the component's state
DpAfterDate(st, newDate) ==
    IF ~st.mounted THEN st
    ELSE IF newDate.kind = "undefined"
    THEN [st EXCEPT !.selectedDate = DpUndefined, !.passed = DpUndefined]
    ELSE LET combinedDateTime == DpSetHours(newDate, st.timeValue)
         IN  DpRender([st EXCEPT !.selectedDate = combinedDateTime, !.passed = combinedDateTime])

\* handleTimeChange(newTime), as a function of the component's state
DpAfterTime(st, newTime) ==
    IF ~st.mounted THEN st
    ELSE IF st.selectedDate.kind = "undefined" THEN [st EXCEPT !.timeValue = newTime]
    ELSE LET newDateTime == DpSetHours(st.selectedDate, newTime)
         IN  DpRender([st EXCEPT !.timeValue = newTime, !.selectedDate = newDateTime,
                                 !.passed = newDateTime])

\* the days the calendar lets the user pick, as local midnights: today and later
DpDays == {DpDate(ParseLocal(DayStart(now + tz) + k * MinutesPerDay), 0) : k \in 0 .. 2}

\* what the time input can hand over
DpTimes == {90, 9 * 60, 14 * 60 + 5, 23 * 60 + 59}

handleDateSelect(newDate) ==
    /\ scene = "picker" /\ dp.mounted
    /\ dp' = DpAfterDate(dp, newDate)
    /\ evt' = Event("handleDateSelect", "ok", 0, 0)
    /\ UNCHANGED <<envVars, now, table, nextId, net, notDp>>

handleTimeChange(newTime) ==
    /\ scene = "picker" /\ dp.mounted
    /\ dp' = DpAfterTime(dp, newTime)
    /\ evt' = Event("handleTimeChange", "ok", 0, 0)
    /\ UNCHANGED <<envVars, now, table, nextId, net, notDp>>

----------------------------------------------------------------------------
(* SourcesTab.  useSources is not in the repository: createSource is a call that        *)
(* resolves or rejects, and its loading may or may not be raised while the call runs.   *)

\* sourceForm as useState makes it
BlankForm == [url |-> "", source_type |-> ""]

SourceTypes == {"Website"}

\* what can be typed into a URL input: nothing, a blank, a URL
Urls == {"", " ", "u"}

\* String.prototype.trim
Trim(u) == IF u = " " THEN "" ELSE u

\* the tab shows its spinner card, and no control, while loading is true
StRendered == scene = "sources" /\ ~stLoading

setSelectedSourceType(t) ==
    /\ StRendered
    /\ stType' = t
    /\ evt' = Quiet
    /\ UNCHANGED <<envVars, notSt, now, table, nextId, net, stLoading, stUrl, stCreating, stDialogOpen, stForm>>

\* the URL input is disabled while no type is selected
setNewSource(u) ==
    /\ StRendered /\ stType # ""
    /\ stUrl' = u
    /\ evt' = Quiet
    /\ UNCHANGED <<envVars, notSt, now, table, nextId, net, stLoading, stType, stCreating, stDialogOpen, stForm>>

CreateCall(who, url, type) ==
    NewCall(who, "createSource", 0, [url |-> Trim(url), source_type |-> type], <<>>)

addSource ==
    /\ IF Trim(stUrl) = "" \/ stType = ""
       THEN /\ evt' = Event("addSource", "reject", 0, 1)
            /\ UNCHANGED <<net, stCreating, stLoading>>
       ELSE /\ HasFree
            /\ stCreating' = TRUE
            /\ stLoading' \in BOOLEAN
            /\ net' = Send(CreateCall("addSource", stUrl, stType))
            /\ evt' = Event("addSource", "start", 0, 0)
    /\ UNCHANGED <<envVars, notSt, now, table, nextId, stType, stUrl, stDialogOpen, stForm>>

\* the Add Source button: disabled={isCreating || !selectedSourceType || !newSource.trim()}
StClickAdd == StRendered /\ ~stCreating /\ stType # "" /\ Trim(stUrl) # "" /\ addSource

\* onKeyDown of the URL input: e.key === 'Enter' && addSource(); disabled={!selectedSourceType}
StPressEnter == StRendered /\ stType # "" /\ addSource

\* the continuation of addSource: the fields are cleared after a success; finally
StAddDone(s) ==
    /\ scene = "sources"
    /\ net[s].who = "addSource" /\ net[s].phase \in {"ok", "err"}
    /\ stUrl' = IF net[s].phase = "ok" THEN "" ELSE stUrl
    /\ stType' = IF net[s].phase = "ok" THEN "" ELSE stType
    /\ stCreating' = FALSE
    /\ stLoading' = FALSE
    /\ net' = [net EXCEPT ![s] = Idle]
    /\ evt' = IF net[s].phase = "ok" THEN Event("addSource", "ok", 0, 0)
                                     ELSE Swallowed("addSource", 0, 1)
    /\ UNCHANGED <<envVars, notSt, now, table, nextId, stDialogOpen, stForm>>

\* DialogTrigger and onOpenChange of the Add Detailed Source dialog
setIsCreateDialogOpen(open) ==
    /\ StRendered /\ stDialogOpen # open
    /\ stDialogOpen' = open
    /\ evt' = Quiet
    /\ UNCHANGED <<envVars, notSt, now, table, nextId, net, stLoading, stType, stUrl, stCreating, stForm>>

setSourceForm(form) ==
    /\ StRendered /\ stDialogOpen
    /\ stForm' = form
    /\ evt' = Quiet
    /\ UNCHANGED <<envVars, notSt, now, table, nextId, net, stLoading, stType, stUrl, stCreating, stDialogOpen>>

\* the button of the dialog: disabled={isCreating}
addDetailedSource ==
    /\ StRendered /\ stDialogOpen /\ ~stCreating
    /\ IF Trim(stForm.url) = "" \/ stForm.source_type = ""
       THEN /\ evt' = Event("addDetailedSource", "reject", 0, 1)
            /\ UNCHANGED <<net, stCreating, stLoading>>
       ELSE /\ HasFree
            /\ stCreating' = TRUE
            /\ stLoading' \in BOOLEAN
            /\ net' = Send(CreateCall("addDetailedSource", stForm.url, stForm.source_type))
            /\ evt' = Event("addDetailedSource", "start", 0, 0)
    /\ UNCHANGED <<envVars, notSt, now, table, nextId, stType, stUrl, stDialogOpen, stForm>>

\* the continuation of addDetailedSource: form cleared and dialog closed after a success
StDetailedDone(s) ==
    /\ scene = "sources"
    /\ net[s].who = "addDetailedSource" /\ net[s].phase \in {"ok", "err"}
    /\ stForm' = IF net[s].phase = "ok" THEN BlankForm ELSE stForm
    /\ stDialogOpen' = IF net[s].phase = "ok" THEN FALSE ELSE stDialogOpen
    /\ stCreating' = FALSE
    /\ stLoading' = FALSE
    /\ net' = [net EXCEPT ![s] = Idle]
    /\ evt' = IF net[s].phase = "ok" THEN Event("addDetailedSource", "ok", 0, 0)
                                     ELSE Swallowed("addDetailedSource", 0, 1)
    /\ UNCHANGED <<envVars, notSt, now, table, nextId, stType, stUrl>>

----------------------------------------------------------------------------
(* The server and the clock *)

\* .eq('content_id', c).single(): one row, or error PGRST116 for none or several,
\* which fetchScheduleData takes for "no schedule"
SelectOne(c) ==
    LET rows == {r \in table : r.content_id = c}
    IN  IF Cardinality(rows) = 1 THEN <<CHOOSE r \in rows : TRUE>> ELSE <<>>

Serve(s) ==
    /\ net[s].phase = "sent"
    /\ LET c == net[s] IN
       CASE c.op = "selectOne" ->
              /\ net' = [net EXCEPT ![s].phase = "ok", ![s].resp = SelectOne(c.id)]
              /\ UNCHANGED <<table, nextId>>
         [] c.op = "selectAll" ->
              /\ \E q \in Ascending(table) : net' = [net EXCEPT ![s].phase = "ok", ![s].resp = q]
              /\ UNCHANGED <<table, nextId>>
         [] c.op = "selectNewest" ->
              /\ \E q \in NewestFirst(table) : net' = [net EXCEPT ![s].phase = "ok", ![s].resp = q]
              /\ UNCHANGED <<table, nextId>>
         [] c.op = "selectIn" ->
              \* .in('content_id', ids).gte('scheduled_at', now).order('scheduled_at')
              /\ \E q \in Ascending({r \in table : /\ r.content_id \in c.sel
                                                     /\ r.scheduled_at # NoTime
                                                     /\ r.scheduled_at >= c.at}) :
                     net' = [net EXCEPT ![s].phase = "ok", ![s].resp = q]
              /\ UNCHANGED <<table, nextId>>
         [] c.op = "insert" ->
              /\ table' = table \cup Range(InsertedRows(c.items))
              /\ nextId' = nextId + Len(c.items)
              /\ net' = [net EXCEPT ![s].phase = "ok", ![s].resp = InsertedRows(c.items)]
         [] c.op = "update" ->
              /\ table' = UpdateById(table, c.id, c.fields)
              /\ net' = [net EXCEPT ![s].phase = "ok"]
              /\ UNCHANGED nextId
         [] c.op = "updateOne" ->
              \* .update(fields).eq('id', id).select().single(): an error when no row has the id
              /\ table' = UpdateById(table, c.id, c.fields)
              /\ net' = IF c.id \in Ids(table)
                        THEN [net EXCEPT ![s].phase = "ok",
                                         ![s].resp = <<Patch(RowOf(table, c.id), c.fields)>>]
                        ELSE [net EXCEPT ![s].phase = "err"]
              /\ UNCHANGED nextId
         [] c.op \in {"onUpdate", "createSource"} ->
              \* the parent's onUpdate, or createSource of useSources, resolves; what it
              \* writes is not in the repository
              /\ net' = [net EXCEPT ![s].phase = "ok"]
              /\ UNCHANGED <<table, nextId>>
         [] c.op = "delete" ->
              /\ table' = DeleteById(table, c.id)
              /\ net' = [net EXCEPT ![s].phase = "ok"]
              /\ UNCHANGED nextId
    /\ evt' = Quiet
    /\ UNCHANGED <<envVars, now, allViews>>

ServeFail(s) ==
    /\ net[s].phase = "sent"
    /\ net' = [net EXCEPT ![s].phase = "err"]
    /\ evt' = Quiet
    /\ UNCHANGED <<envVars, now, table, nextId, allViews>>

Tick ==
    /\ now < T0 + MaxTicks * TickStep
    /\ now' = now + TickStep
    /\ evt' = Quiet
    /\ UNCHANGED <<envVars, table, nextId, net, allViews>>

----------------------------------------------------------------------------

InitCore(tables) ==
    /\ now = T0
    /\ table \in tables
    /\ nextId = MaxId + 1 - Cardinality({i \in 1 .. MaxId : \A r \in table : r.id < i})
    /\ evt = Quiet

IdleNet == [s \in Slots |-> Idle]

\* a component that is not mounted
NoDisplay ==
    /\ sdContent = 1 /\ sdRow = NoRow /\ sdLoading = FALSE /\ sdModalOpen = FALSE
    /\ sdUpdating = FALSE /\ sdInput = NoTime /\ sdError = ""

NoHook == scList = <<>> /\ scLoading = FALSE /\ scError = ""

NoPosts ==
    /\ ptRefreshing = FALSE /\ ptEditing = 0 /\ ptDialogOpen = FALSE
    /\ ptInput = NoTime /\ ptSaving = FALSE

NoCs == csMap = [c \in Contents |-> NoEntry] /\ csLoading = FALSE

NoModal == cmOpen = FALSE /\ cmInfo = NoEntry /\ cmUpdating = FALSE /\ cmEditing = NoEdit

NoDialog ==
    /\ dlVersion = 1 /\ dlOpen = FALSE /\ dlSelected = <<>> /\ dlSchedules = <<>>
    /\ dlSubmitting = FALSE

NoUpd ==
    /\ udOpen = FALSE /\ udCurrent = NoTime /\ udInput = NoTime /\ udError = ""
    /\ udUpdating = FALSE

NoSources ==
    /\ stLoading = FALSE /\ stType = "" /\ stUrl = "" /\ stCreating = FALSE
    /\ stDialogOpen = FALSE /\ stForm = BlankForm

NoPicker == dp = DpState(DpUndefined, 0, DpUndefined)

\* ScheduleDisplay after its first render: the effect has called fetchScheduleData
InitDisplay ==
    /\ InitCore(SeedTables)
    /\ scene = "display"
    /\ tz \in TzOffsets
    /\ user = 1
    /\ sdContent \in Contents
    /\ sdRow = NoRow /\ sdLoading = TRUE /\ sdModalOpen = FALSE
    /\ sdUpdating = FALSE /\ sdInput = NoTime /\ sdError = ""
    /\ net = [IdleNet EXCEPT ![1] = NewCall("sdFetch", "selectOne", sdContent, <<>>, <<>>)]
    /\ NoHook /\ NoPosts /\ NoCs /\ NoModal /\ NoDialog /\ NoUpd /\ NoSources /\ NoPicker

\* useScheduledContent after the first render: the effect has called fetchScheduledContent
MountedHook ==
    /\ scList = <<>> /\ scLoading = TRUE /\ scError = ""
    /\ net = [IdleNet EXCEPT ![1] = ScFetchCall("scFetch")]

InitPosts ==
    /\ InitCore(SeedTables)
    /\ scene = "posts"
    /\ tz \in TzOffsets
    /\ user \in {NoUser, 1}
    /\ MountedHook /\ NoPosts /\ NoDisplay /\ NoCs /\ NoModal /\ NoDialog /\ NoUpd /\ NoSources /\ NoPicker

InitScHook(tables) ==
    /\ InitCore(tables)
    /\ scene = "schook"
    /\ tz = 0
    /\ user = 1
    /\ MountedHook /\ NoPosts /\ NoDisplay /\ NoCs /\ NoModal /\ NoDialog /\ NoUpd /\ NoSources /\ NoPicker

InitCsHook ==
    /\ InitCore(CsSeedTables)
    /\ scene = "cshook"
    /\ tz = 0
    /\ user = 1
    /\ net = IdleNet
    /\ NoCs /\ NoModal /\ NoHook /\ NoPosts /\ NoDisplay /\ NoDialog /\ NoUpd /\ NoSources /\ NoPicker

InitModal ==
    /\ InitCore({{SeedRow1, SeedRow2}})
    /\ scene = "modal"
    /\ tz \in TzOffsets
    /\ user = 1
    /\ net = IdleNet
    /\ cmOpen = FALSE /\ cmInfo \in CmParentInfo(1) /\ cmUpdating = FALSE /\ cmEditing = NoEdit
    /\ NoCs /\ NoHook /\ NoPosts /\ NoDisplay /\ NoDialog /\ NoUpd /\ NoSources /\ NoPicker

\* the dialog, mounted closed, after the first fetch of its hook has returned
InitDialog ==
    /\ InitCore({{SeedRow1}})
    /\ scene = "dialog"
    /\ tz \in {0 - 300, 0}
    /\ user \in {NoUser, 1}
    /\ net = IdleNet
    /\ scList = <<SeedRow1>> /\ scLoading = FALSE /\ scError = ""
    /\ dlVersion \in 1 .. 3
    /\ dlOpen = FALSE
    /\ dlSelected \in {<<1>>, <<1, 2>>}
    /\ dlSchedules = IF dlVersion = 3 THEN <<>> ELSE DlInitial(dlVersion, dlSelected)
    /\ dlSubmitting = FALSE
    /\ NoPosts /\ NoDisplay /\ NoCs /\ NoModal /\ NoUpd /\ NoSources /\ NoPicker

InitUpd ==
    /\ InitCore(SeedTables)
    /\ scene = "upd"
    /\ tz \in TzOffsets
    /\ user = 1
    /\ net = IdleNet
    /\ udOpen = FALSE /\ udCurrent \in {NoTime, T0 + MinutesPerDay}
    /\ udInput = NoTime /\ udError = "" /\ udUpdating = FALSE
    /\ NoHook /\ NoPosts /\ NoDisplay /\ NoCs /\ NoModal /\ NoDialog /\ NoSources /\ NoPicker

\* the date prop the picker is mounted with
DpProps == {DpUndefined, DpDate(T0 + 605, 30)}

\* DateTimePicker after its first render: useState(date), useState(format(date, "HH:mm"))
InitPicker ==
    /\ InitCore({{}})
    /\ scene = "picker"
    /\ tz \in TzOffsets
    /\ user = 1
    /\ net = IdleNet
    /\ \E date \in DpProps :
          dp = DpState(date, IF date.kind = "date" THEN TimeOfDay(date.t + tz) ELSE 9 * 60,
                       DpUndefined)
    /\ NoHook /\ NoPosts /\ NoDisplay /\ NoCs /\ NoModal /\ NoDialog /\ NoUpd /\ NoSources

\* SourcesTab after its sources have been fetched
InitSources ==
    /\ InitCore({{SeedRow1}})
    /\ scene = "sources"
    /\ tz = 0
    /\ user = 1
    /\ net = IdleNet
    /\ NoSources /\ NoPicker
    /\ NoHook /\ NoPosts /\ NoDisplay /\ NoCs /\ NoModal /\ NoDialog /\ NoUpd

NextRemote ==
    \/ \E s \in Slots : Serve(s)
    \/ \E s \in Slots : ServeFail(s)

NextServer ==
    \/ NextRemote
    \/ Tick

NextDisplay ==
    \/ SdOpenModal
    \/ \E w \in InputWalls \cup {NoTime} : SdInputChange(w)
    \/ SdCloseModal
    \/ handleUpdateSchedule
    \/ \E s \in Slots : SdUpdateDone(s)
    \/ \E s \in Slots : SdFetchDone(s)

NextPosts ==
    \/ \E s \in Slots : ScFetchDone(s)
    \/ handleRefresh
    \/ \E i \in 1 .. Len(scList) : handleEditPost(scList[i])
    \/ \E w \in InputWalls \cup {NoTime} : PtInputChange(w)
    \/ handleCancelEdit
    \/ PtSaveSchedule
    \/ \E s \in Slots : PtSaveDone(s)

\* what the dialog's fields can be brought to: type chosen, then a blank, then a URL
SourceForms == {[url |-> u, source_type |-> "Website"] : u \in Urls}

NextSources ==
    \/ \E t \in SourceTypes : setSelectedSourceType(t)
    \/ \E u \in Urls : setNewSource(u)
    \/ StClickAdd
    \/ StPressEnter
    \/ \E s \in Slots : StAddDone(s)
    \/ \E open \in BOOLEAN : setIsCreateDialogOpen(open)
    \/ \E form \in SourceForms : setSourceForm(form)
    \/ addDetailedSource
    \/ \E s \in Slots : StDetailedDone(s)

SpecSources == InitSources /\ [][NextSources \/ NextRemote]_vars

NextPicker ==
    \/ \E newDate \in DpDays \cup {DpUndefined} : handleDateSelect(newDate)
    \/ \E newTime \in DpTimes \cup {NoTime} : handleTimeChange(newTime)

SpecPicker == InitPicker /\ [][NextPicker]_vars

\* what a caller of the hook may pass
StatusArgs == {NullStatus, "", "pending", "posted"}

ItemArgs ==
    {[user_id |-> 1, content_id |-> 1, scheduled_at |-> T0 + MinutesPerDay]}
    \cup {[user_id |-> 1, content_id |-> 1, scheduled_at |-> T0 + MinutesPerDay, status |-> st] :
             st \in StatusArgs}

UpdateArgs == {[scheduled_at |-> T0 + 60]}

\* a caller that creates schedules
NextScCreate ==
    \/ \E s \in Slots : ScFetchDone(s)
    \/ ScFetchStart
    \/ \E item \in ItemArgs : scheduleContent(item)
    \/ \E a \in ItemArgs : scheduleMultipleContent(<<a, [user_id |-> 1, content_id |-> 2]>>)
    \/ \E ids \in {<<1>>, <<2, 1>>} : scheduleContentByIds(ids, 1)
    \/ \E s \in Slots : ScMutationDone(s)

\* a caller that changes and deletes schedules
NextScChange ==
    \/ \E s \in Slots : ScFetchDone(s)
    \/ ScFetchStart
    \/ \E id \in 1 .. MaxId, u \in UpdateArgs : updateScheduledContent(id, u)
    \/ \E id \in 1 .. MaxId : deleteScheduledContent(id)
    \/ \E s \in Slots : ScMutationDone(s)

NextCsHook ==
    \/ \E ids \in SUBSET Contents : fetchContentSchedules(ids)
    \/ \E s \in Slots : CsFetchDone(s)
    \/ \E id \in 1 .. MaxId : updateSchedule(id, T0 + 60)
    \/ \E id \in 1 .. MaxId, c \in Contents : deleteSchedule(id, c)
    \/ \E s \in Slots : CsMutationDone(s)

NextModal ==
    \/ CmOpenModal
    \/ CmCloseModal
    \/ CmPropsChange
    \/ \E i \in 1 .. Len(cmInfo.schedules) : CmEditSchedule(cmInfo.schedules[i])
    \/ \E d \in CmCalendarDays \cup {NoTime} : CmPickDate(d)
    \/ \E m \in CmTimes \cup {NoTime} : CmSetTime(m)
    \/ CmCancelEdit
    \/ CmSaveSchedule
    \/ \E id \in 1 .. MaxId : CmDeleteSchedule(id)
    \/ \E s \in Slots : CmMutationDone(s)

NextDialog ==
    \/ \E selected \in {<<>>, <<1>>, <<1, 2>>} : DlParentSelect(selected)
    \/ DlOpenDialog
    \/ DlCloseDialog
    \/ \E c \in Contents, d \in DlCalendarDays \cup {NoTime} : updateContentSchedule(c, "date", d)
    \/ \E c \in Contents, m \in {NoTime, DefaultTime} : updateContentSchedule(c, "time", m)
    \/ \E c \in Contents : updateContentSchedule(c, "platform", DefaultPlatform)
    \/ handleSubmit
    \/ \E s \in Slots : DlSubmitDone(s)

SpecDialog == InitDialog /\ [][NextDialog \/ NextServer]_vars

NextUpd ==
    \/ UdOpenDialog
    \/ UdCloseDialog
    \/ \E w \in InputWalls \cup {NoTime} : handleDateTimeChange(w)
    \/ handleSave
    \/ \E s \in Slots : UdSaveDone(s)

SpecUpd == InitUpd /\ [][NextUpd \/ NextServer]_vars

SpecModal == InitModal /\ [][NextModal \/ NextServer]_vars

SpecCsHook == InitCsHook /\ [][NextCsHook \/ NextServer]_vars

SpecDisplay == InitDisplay /\ [][NextDisplay \/ NextServer]_vars

SpecPosts == InitPosts /\ [][NextPosts \/ NextServer]_vars

InitScCreate == InitScHook({{SeedRow1}})

InitScChange == InitScHook(SeedTables)

\* the create path of the hook reads no clock
SpecScCreate == InitScCreate /\ [][NextScCreate \/ NextRemote]_vars

SpecScChange == InitScChange /\ [][NextScChange \/ NextServer]_vars

\* a caller that uses every function of hooks/useScheduledContent.ts, awaiting each call
HookItem == [user_id |-> 1, content_id |-> 2, scheduled_at |-> T0 + MinutesPerDay]

NextScHook ==
    \/ \E s \in Slots : ScFetchDone(s)
    \/ ScFetchStart
    \/ fetchScheduledContentOlder
    \/ scheduleContent(HookItem)
    \/ scheduleMultipleContent(<<HookItem, [user_id |-> 2, content_id |-> 1]>>)
    \/ \E id \in 1 .. MaxId, u \in UpdateArgs : updateScheduledContent(id, u)
    \/ \E id \in 1 .. MaxId : deleteScheduledContent(id)
    \/ \E s \in Slots : ScMutationDone(s)

\* the hook once the fetch of its mount effect has succeeded
InitScFetched ==
    /\ InitCore(SeedTables)
    /\ scene = "schook"
    /\ tz = 0
    /\ user = 1
    /\ net = IdleNet
    /\ scList \in Ascending(table) /\ scLoading = FALSE /\ scError = ""
    /\ NoPosts /\ NoDisplay /\ NoCs /\ NoModal /\ NoDialog /\ NoUpd /\ NoSources /\ NoPicker

SpecScHook == InitScFetched /\ [][NextScHook \/ NextRemote]_vars

\* a caller that uses the functions of hooks/useScheduledContent.ts alone, awaiting each call
NextScNewer ==
    \/ \E s \in Slots : ScFetchDone(s)
    \/ ScFetchStart
    \/ scheduleContent(HookItem)
    \/ scheduleMultipleContent(<<HookItem, [user_id |-> 2, content_id |-> 1]>>)
    \/ \E id \in 1 .. MaxId, u \in UpdateArgs : updateScheduledContent(id, u)
    \/ \E id \in 1 .. MaxId : deleteScheduledContent(id)
    \/ \E s \in Slots : ScMutationDone(s)

SpecScNewer == InitScFetched /\ [][NextScNewer \/ NextRemote]_vars

\* every view with a save, delete, refresh or create control
SpecRequests ==
    /\ InitDisplay \/ InitPosts \/ InitScFetched
    /\ [][NextDisplay \/ NextPosts \/ NextScHook \/ NextRemote]_vars

----------------------------------------------------------------------------
(* Specifications of several components; the scene says which one is mounted *)

\* the edit paths: ScheduleDisplay, ScheduledPostsTab, ContentScheduleModal, updateSchedule
InitEdit == InitDisplay \/ InitPosts \/ InitModal \/ InitCsHook

SpecEdit == InitEdit /\ [][NextDisplay \/ NextPosts \/ NextModal \/ NextCsHook \/ NextServer]_vars

\* the create paths: the hooks and the insert of ScheduleDisplay
InitCreate == InitDisplay \/ InitScCreate

SpecCreate ==
    InitCreate /\ [][NextDisplay \/ NextScCreate \/ NextRemote \/ (scene = "display" /\ Tick)]_vars

\* the delete paths: both hooks and ContentScheduleModal
InitDelete == InitScChange \/ InitCsHook \/ InitModal

SpecDelete == InitDelete /\ [][NextScChange \/ NextCsHook \/ NextModal \/ NextServer]_vars

\* the dialogs that reset on close
InitForms == InitDialog \/ InitUpd

SpecForms == InitForms /\ [][NextDialog \/ NextUpd \/ NextServer]_vars

\* the three dialogs that submit or save a schedule: ScheduleContentDialog,
\* UpdateScheduleDialog and the edit dialog of ScheduledPostsTab
SpecSubmit ==
    /\ InitDialog \/ InitUpd \/ InitPosts
    /\ [][NextDialog \/ NextUpd \/ NextPosts \/ NextRemote]_vars

\* the dialogs that are opened and closed through an isOpen prop
SpecClose ==
    /\ InitDialog \/ InitUpd \/ InitModal
    /\ [][NextDialog \/ NextUpd \/ NextModal \/ NextServer]_vars

\* a remote call settles: the promise of the client resolves or rejects
Settle(s) == Serve(s) \/ ServeFail(s)

\* the continuation of the handler that awaits the call runs
Complete(s) ==
    \/ SdUpdateDone(s) \/ SdFetchDone(s)
    \/ ScFetchDone(s) \/ PtSaveDone(s)
    \/ CsFetchDone(s) \/ CsMutationDone(s)
    \/ CmMutationDone(s)
    \/ DlSubmitDone(s)
    \/ UdSaveDone(s)
    \/ StAddDone(s) \/ StDetailedDone(s)

\* every call settles, and every settled call's continuation runs: a call that has been
\* sent can take one of the two steps until its handler has finished
Fairness == \A s \in Slots : WF_vars(Settle(s) \/ Complete(s))

\* every component with a busy flag, one user, one timezone
InitBusy ==
    /\ InitDisplay \/ InitPosts \/ InitCsHook \/ InitModal \/ InitDialog \/ InitUpd \/ InitSources
    /\ tz = 0 /\ user = 1

NextBusy ==
    NextDisplay \/ NextPosts \/ NextCsHook \/ NextModal \/ NextDialog \/ NextUpd \/ NextSources

SpecBusy == InitBusy /\ [][NextBusy \/ NextRemote]_vars /\ Fairness

\* the dialog with its calls settling and its handlers resuming; nothing obliges the user
\* or the parent to act
SpecDialogFair == InitDialog /\ [][NextDialog \/ NextServer]_vars /\ Fairness

\* the local schedules of every content, as the set of <<content, schedule item>>
CsLocal(map) ==
    UNION {{<<c, map[c].schedules[i]>> : i \in DOMAIN map[c].schedules} : c \in Contents}

\* useContentSchedules under a caller that starts updates and deletes of schedules the
\* map lists without awaiting the earlier calls
NewTimes == {T0 + 60, T0 + 120}

NextCsOverlap ==
    \/ \E ids \in SUBSET Contents : fetchContentSchedules(ids)
    \/ \E s \in Slots : CsFetchDone(s)
    \/ \E p \in CsLocal(csMap), t \in NewTimes : updateScheduleUnawaited(p[2].id, t)
    \/ \E p \in CsLocal(csMap) : deleteScheduleUnawaited(p[2].id, p[1])
    \/ \E s \in Slots : CsMutationDone(s)

SpecCsOverlap == InitCsHook /\ [][NextCsOverlap \/ NextRemote]_vars

\* the forms that validate what is submitted
SpecReject ==
    /\ InitDialog \/ InitUpd \/ InitDisplay
    /\ [][NextDialog \/ NextUpd \/ NextDisplay \/ NextServer]_vars

----------------------------------------------------------------------------
(* Properties *)

Sent(s) == net[s].phase = "sent"

Served(s) == net[s].phase = "ok"

\* the calls of the edit paths of the UI
EditCallers == {"sdUpdate", "ptSave", "cmSave"}

\* the scheduled_at values a call writes
WrittenTimes(c) ==
    (IF "scheduled_at" \in DOMAIN c.fields THEN {c.fields.scheduled_at} ELSE {})
    \cup {c.items[i].scheduled_at : i \in {j \in DOMAIN c.items : "scheduled_at" \in DOMAIN c.items[j]}}

\* C1: every scheduled_at that an edit path of the UI sends to the remote table
\* (ScheduleDisplay.handleUpdateSchedule, ScheduledPostsTab.handleSaveSchedule,
\* ContentScheduleModal.handleSaveSchedule) is strictly after the time of the save, in
\* every browser timezone
C1_EditWritesFuture ==
    \A s \in Slots :
        net[s].who \in EditCallers /\ Sent(s) =>
            \A t \in WrittenTimes(net[s]) : t > net[s].at

\* C1: ScheduleDisplay has sent a time that is not after the time of the save
C1_DisplayWritesPast ==
    \E s \in Slots :
        /\ net[s].who = "sdUpdate" /\ Sent(s)
        /\ \E t \in WrittenTimes(net[s]) : t <= net[s].at

\* C2: a submission of ScheduleContentDialog in which the date and time of some item are
\* not after the current time is rejected: no insert with such a time is sent
C2_PastSubmissionRejected ==
    \A s \in Slots :
        net[s].who = "dlSubmit" /\ Sent(s) =>
            \A t \in WrittenTimes(net[s]) : t > net[s].at

\* C2: the dialog has sent an insert whose time is not after the time of the submission
C2_PastInsertSent ==
    \E s \in Slots :
        /\ net[s].who = "dlSubmit" /\ Sent(s)
        /\ \E t \in WrittenTimes(net[s]) : t <= net[s].at

\* C3: a successful submission of ScheduleContentDialog with N selected items inserts
\* exactly N rows, and their content_id values are exactly the selected ids
C3_OneRowPerSelectedItem ==
    \A s \in Slots :
        net[s].who = "dlSubmit" /\ Served(s) =>
            /\ Len(net[s].resp) = Cardinality(net[s].sel)
            /\ {net[s].resp[i].content_id : i \in DOMAIN net[s].resp} = net[s].sel

\* C3: a submission with two selected items has succeeded with fewer than two new rows
C3_FewerRowsThanSelected ==
    \E s \in Slots :
        /\ net[s].who = "dlSubmit" /\ Served(s)
        /\ Cardinality(net[s].sel) = 2 /\ Len(net[s].resp) < 2

\* C8: every failed remote call has produced exactly one error notification when its
\* handler has finished, hook and component counted together
C8_OneNotificationPerFailure == evt.res = "err" => evt.errs = 1

\* C8: a failed fetch of ScheduleDisplay has been handled without any notification
C8_SilentFetchFailure == evt.who = "sdFetch" /\ evt.res = "err" /\ evt.errs = 0

\* the row a running edit of ScheduleDisplay or ScheduledPostsTab was opened on
SdPrefilled == sdRow # NoRow /\ sdRow.scheduled_at # NoTime /\ sdInput = convertUTCToIST(sdRow.scheduled_at)

PtEdited == {r \in Range(scList) : r.id = ptEditing /\ r.scheduled_at # NoTime}

\* C9: saving the unchanged pre-filled input writes back the stored instant:
\* convertISTToUTC(convertUTCToIST(t)) = t in ScheduleDisplay, and the conversions of
\* handleEditPost and handleSaveSchedule of ScheduledPostsTab compose to the identity
C9_RoundTrip ==
    /\ (evt.who = "sdUpdate" /\ evt.res = "start" /\ SdPrefilled) =>
           \E s \in Slots : /\ net[s].who = "sdUpdate" /\ Sent(s)
                            /\ WrittenTimes(net[s]) = {sdRow.scheduled_at}
    /\ (evt.who = "ptSave" /\ evt.res = "start") =>
           \A r \in PtEdited : ptInput = PtLocalInput(r.scheduled_at) =>
               \E s \in Slots : /\ net[s].who = "ptSave" /\ Sent(s)
                                /\ WrittenTimes(net[s]) = {r.scheduled_at}

\* C9: ScheduleDisplay has saved an unchanged pre-filled input as another instant
C9_DisplayDrift ==
    /\ evt.who = "sdUpdate" /\ evt.res = "start" /\ SdPrefilled
    /\ \E s \in Slots : /\ net[s].who = "sdUpdate" /\ Sent(s)
                        /\ WrittenTimes(net[s]) # {sdRow.scheduled_at}

\* the hooks' and components' calls that create rows
Creators == {"scheduleContent", "scheduleMultipleContent", "scheduleContentByIds", "sdUpdate"}

\* the caller leaves the status to the hook: no status, null, '' or 'pending'
StatusLeftOut(item) == "status" \notin DOMAIN item \/ item.status \in {NullStatus, "", "pending"}

\* C4: a row created through scheduleContent, scheduleMultipleContent or the insert of
\* ScheduleDisplay has status 'pending' when the caller's item has no status, a null or
\* empty one, or 'pending'; a non-empty status in the item is stored as passed
C4_PendingUnlessCallerSetsStatus ==
    \A s \in Slots :
        net[s].who \in Creators /\ net[s].op = "insert" /\ Served(s) =>
            \A i \in DOMAIN net[s].resp :
                /\ net[s].resp[i] \in table
                /\ net[s].resp[i].status = IF StatusLeftOut(net[s].snap[i]) THEN "pending"
                                           ELSE net[s].snap[i].status

\* C4: every row created through scheduleContent, scheduleMultipleContent or the insert of
\* ScheduleDisplay has status 'pending', whatever the caller passes in the item
C4_CreatedRowsPending ==
    \A s \in Slots :
        net[s].who \in Creators /\ net[s].op = "insert" /\ Served(s) =>
            \A i \in DOMAIN net[s].resp : net[s].resp[i].status = "pending"

\* C4: a row has been created as 'pending' from an item whose status was null or ''
C4_DefaultApplied ==
    \E s \in Slots :
        /\ net[s].who \in {"scheduleContent", "scheduleMultipleContent"} /\ Served(s)
        /\ \E i \in DOMAIN net[s].resp :
              /\ "status" \in DOMAIN net[s].snap[i]
              /\ net[s].snap[i].status \in {NullStatus, ""}
              /\ net[s].resp[i].status = "pending"

\* the remote step of an edit: the update of ScheduleDisplay, ScheduledPostsTab,
\* ContentScheduleModal or updateSchedule is answered
EditAnswered(s) ==
    /\ net[s].who \in EditCallers \cup {"updateSchedule"}
    /\ net[s].op \in {"update", "updateOne"}
    /\ Sent(s) /\ net'[s].phase \in {"ok", "err"}

\* the table after the step differs from the table before it at most in scheduled_at
\* of the row c.id, and in its status when ScheduleDisplay has set it to 'pending'
FrameKept(c) ==
    /\ Ids(table') = Ids(table)
    /\ \A r \in table :
          LET after == RowOf(table', r.id)
          IN  IF r.id # c.id THEN after = r
              ELSE \/ after = r
                   \/ after = [r EXCEPT !.scheduled_at = after.scheduled_at,
                                        !.status = IF c.who = "sdUpdate" THEN "pending"
                                                   ELSE r.status]

\* C5: an edit from the UI changes only scheduled_at of the edited row (and on the
\* ScheduleDisplay path sets its status to 'pending'); its id, created_at, user_id,
\* content_id and posted_at and every other row stay as they were
C5_EditFrame == [][\A s \in Slots : EditAnswered(s) => FrameKept(net[s])]_vars

\* C5: an edit has been applied to a row of a table that has other rows
C5_EditApplied ==
    \E s \in Slots :
        /\ net[s].who \in EditCallers /\ net[s].op \in {"update", "updateOne"} /\ Served(s)
        /\ Cardinality(table) >= 2
        /\ net[s].id \in Ids(table)
        /\ RowOf(table, net[s].id).scheduled_at = net[s].fields.scheduled_at
        /\ RowOf(table, net[s].id).scheduled_at # SeedRow1.scheduled_at

\* the step in which a hook finishes a delete that the remote table has carried out
DeleteDone(s) == net[s].op = "delete" /\ Served(s) /\ net'[s].phase = "idle"

\* the schedule is listed under the content in a contentSchedules map
Listed(map, c, id) == c \in Contents /\ \E x \in Range(map[c].schedules) : x.id = id

\* C6: when a delete has completed, the remote table has no row with the id, the list of
\* useScheduledContent has no item with it, and the map of useContentSchedules has none
\* either when deleteSchedule was called with the contentId under which the hook's map
\* listed the schedule
C6_DeletedEverywhereIfListed ==
    [][\A s \in Slots : DeleteDone(s) =>
          /\ net[s].id \notin Ids(table')
          /\ net[s].who = "deleteScheduledContent" =>
                 \A i \in DOMAIN scList' : scList'[i].id # net[s].id
          /\ (net[s].who \in {"deleteSchedule", "cmDelete"}
                 /\ Listed(net[s].snap, net[s].sel, net[s].id)) =>
                 \A c \in Contents : ~Listed(csMap', c, net[s].id)]_vars

\* C6: when a delete has completed, the remote table has no row with the id and the local
\* view of the hook has no item with it, whatever contentId deleteSchedule was called with
C6_DeletedEverywhere ==
    [][\A s \in Slots : DeleteDone(s) =>
          /\ net[s].id \notin Ids(table')
          /\ \A i \in DOMAIN scList' : scList'[i].id # net[s].id
          /\ \A c \in Contents : ~Listed(csMap', c, net[s].id)]_vars

\* C6: the remote table has carried out a deleteSchedule of a schedule the map lists
C6_ListedScheduleDeleted ==
    \E s \in Slots :
        /\ net[s].who = "deleteSchedule" /\ net[s].op = "delete" /\ Served(s)
        /\ Listed(net[s].snap, net[s].sel, net[s].id)
        /\ net[s].id \notin Ids(table)

\* the controls that start a remote mutation
MutationControls == {"dlSubmit", "sdUpdate", "ptSave", "cmSave", "cmDelete", "udSave"}

InFlight(s) == net[s].phase # "idle"

\* the busy flag of the component that started the call
BusyFlag(who) ==
    CASE who = "dlSubmit" -> dlSubmitting
      [] who = "sdUpdate" -> sdUpdating
      [] who = "ptSave" -> ptSaving
      [] who \in {"cmSave", "cmDelete"} -> cmUpdating
      [] who = "udSave" -> udUpdating

\* C7: while a mutation started from a schedule dialog is in flight its control is
\* disabled, and no second mutation of the same control starts before the first has
\* completed, whatever the user clicks, closes and reopens
C7_OneMutationPerControl ==
    /\ \A s \in Slots : InFlight(s) /\ net[s].who \in MutationControls => BusyFlag(net[s].who)
    /\ \A s, q \in Slots :
          s # q /\ InFlight(s) /\ InFlight(q) /\ net[s].who \in MutationControls =>
              net[s].who # net[q].who

\* C7: two submissions of ScheduleContentDialog are in flight at once
C7_TwoSubmissionsInFlight ==
    \E s, q \in Slots :
        /\ s # q
        /\ net[s].who = "dlSubmit" /\ Sent(s)
        /\ net[q].who = "dlSubmit" /\ InFlight(q)

\* C10: when a selected item has no date, an empty time or an empty platform, the submit
\* of ScheduleContentDialog sends nothing; nor does an edit save with an empty input
C10_IncompleteNotSent ==
    /\ (evt.who = "dlSubmit" /\ evt.res = "start") =>
           \A c \in Range(dlSelected) :
               \E i \in DOMAIN dlSchedules :
                   /\ dlSchedules[i].contentId = c
                   /\ dlSchedules[i].date # NoTime /\ dlSchedules[i].time # NoTime
                   /\ dlVersion # 3 => dlSchedules[i].platform # ""
    /\ (evt.who = "sdUpdate" /\ evt.res = "start") => sdInput # NoTime
    /\ (evt.who = "ptSave" /\ evt.res = "start") => ptInput # NoTime
    /\ (evt.who = "cmSave" /\ evt.res = "start") =>
           cmEditing.date # NoTime /\ cmEditing.time # NoTime
    /\ (evt.who = "udSave" /\ evt.res = "start") => udInput # NoTime

\* C10: a submission has been sent while a selected item had no schedule, so no date
C10_UndatedItemSent ==
    /\ evt.who = "dlSubmit" /\ evt.res = "start"
    /\ \E c \in Range(dlSelected) : \A i \in DOMAIN dlSchedules : dlSchedules[i].contentId # c

\* the step in which a handler finishes a remote call that has failed
FailedDone(s) == net[s].phase = "err" /\ net'[s].phase = "idle"

\* the calls of hooks/useScheduledContent.ts a caller makes
HookFetches == {"scRefetch"}

HookMutations == {"scheduleContent", "scheduleMultipleContent", "updateScheduledContent",
                  "deleteScheduledContent"}

\* C11: when the remote call of fetchScheduledContent, scheduleContent,
\* scheduleMultipleContent, updateScheduledContent or deleteScheduledContent fails, the
\* handler leaves the scheduledContent list as it was, and the four mutations throw the
\* error on to their caller
C11_FailureKeepsList ==
    [][\A s \in Slots :
          (net[s].who \in HookFetches \cup HookMutations /\ FailedDone(s)) =>
              /\ scList' = scList
              /\ evt'.who = net[s].who /\ evt'.res = "err"
              /\ net[s].who \in HookMutations => evt'.thrown]_vars

\* C11: a delete of the hook has failed with rows in the list, and the error was thrown on
C11_DeleteFailedAndThrew ==
    /\ scene = "schook" /\ scList # <<>>
    /\ evt.who = "deleteScheduledContent" /\ evt.res = "err" /\ evt.thrown

\* no call of the hook is in flight
HookAtRest == \A s \in Slots : Free(s)

\* C12: starting from a successful fetch, after any sequence of scheduleContent,
\* scheduleMultipleContent, updateScheduledContent and deleteScheduledContent calls made
\* one at a time on one hook, with no other writer, the rows of the scheduledContent list
\* are the rows of the remote table
C12_ListMirrorsTable == (scene = "schook" /\ HookAtRest) => Range(scList) = table

\* C12: an update has succeeded on a table that holds a row created through the hook
C12_UpdatedAfterCreate ==
    /\ scene = "schook" /\ HookAtRest
    /\ evt.who = "updateScheduledContent" /\ evt.res = "ok"
    /\ \E r \in table : r.created_at = T0
    /\ \E r \in table : r.id = evt.id /\ r.scheduled_at = T0 + 60

\* the step in which the remote table answers a call
Answered(s) == net[s].phase = "sent" /\ net'[s].phase = "ok"

\* list holds every row of rows once
HoldsExactly(list, rows) == Range(list) = rows /\ Len(list) = Cardinality(rows)

ByScheduledAt(list) ==
    \A i, j \in DOMAIN list :
        i < j => SortKey(list[i].scheduled_at) <= SortKey(list[j].scheduled_at)

ByNewest(list) == \A i, j \in DOMAIN list : i < j => list[i].created_at >= list[j].created_at

\* C13: a successful fetchScheduledContent is answered with exactly the rows the remote
\* table holds at the time of the query, of every user, scheduled_at ascending in
\* hooks/useScheduledContent.ts and created_at descending in the older hook, and the
\* handler makes that answer the local list
C13_FetchMirrorsTable ==
    [][\A s \in Slots :
          /\ (net[s].who = "scRefetch" /\ Answered(s)) =>
                 HoldsExactly(net'[s].resp, table) /\ ByScheduledAt(net'[s].resp)
          /\ (net[s].who = "olderFetch" /\ Answered(s)) =>
                 HoldsExactly(net'[s].resp, table) /\ ByNewest(net'[s].resp)
          /\ (net[s].who \in {"scRefetch", "olderFetch"} /\ Served(s) /\ net'[s].phase = "idle") =>
                 scList' = net[s].resp]_vars

\* C13: a fetch has brought rows of two users, created at different times, into the list
C13_FetchedTwoUsers ==
    /\ scene = "schook" /\ HookAtRest
    /\ evt.who \in {"scRefetch", "olderFetch"} /\ evt.res = "ok"
    /\ \E i, j \in DOMAIN scList :
          /\ scList[i].user_id # scList[j].user_id
          /\ scList[i].created_at # scList[j].created_at
          /\ scList[i].scheduled_at # scList[j].scheduled_at

\* the calls a step has sent to the remote table
Issued == {s \in Slots : net'[s].phase = "sent" /\ net'[s] # net[s]}

\* the step of a handler that has passed its local validation
UserAction == evt'.res = "start"

\* handleUpdateSchedule reads the row again after its write has succeeded
ReadBack(s) ==
    /\ net[s].who = "sdUpdate" /\ net[s].phase = "ok"
    /\ net'[s].who = "sdRefetch" /\ net'[s].op = "selectOne"

C15_StatusUntouched ==
    [][\A r \in table : \A q \in table' :
          q.id = r.id => (q.status = r.status /\ q.posted_at = r.posted_at)]_vars

\* C15: the row that was posted is 'pending' again after a save of ScheduleDisplay
C15_PostedSetPending ==
    /\ scene = "display"
    /\ evt.who = "sdUpdate" /\ evt.res = "ok"
    /\ \E r \in table :
          r.id = SeedRow2.id /\ r.id = evt.id /\ r.status = "pending" /\ r.posted_at # NoTime

\* no entry of the dialog holds an entered date or time
DlFormBlank == \A i \in DOMAIN dlSchedules :
                   dlSchedules[i].date = NoTime /\ dlSchedules[i].time = DefaultTime

\* C16: once isOpen is false the form state of a schedule dialog is back to its initial
\* values: no row being edited, no entered date or time, no validation error, busy flag
\* clear, so that a reopen shows nothing of the previous session
C16_ClosedFormIsInitial ==
    /\ (scene = "dialog" /\ ~dlOpen) => (DlFormBlank /\ ~dlSubmitting)
    /\ (scene = "upd" /\ ~udOpen) => (udInput = NoTime /\ udError = "" /\ ~udUpdating)
    /\ (scene = "modal" /\ ~cmOpen) => (cmEditing = NoEdit /\ ~cmUpdating)

\* C16: the first ScheduleContentDialog is closed, nothing is in flight, and it still
\* holds the date entered while it was open
C16_ClosedWithEnteredDate ==
    /\ scene = "dialog" /\ dlVersion = 1 /\ ~dlOpen /\ ~dlSubmitting /\ HookAtRest
    /\ \E i \in DOMAIN dlSchedules : dlSchedules[i].date # NoTime

\* the inline validation message of the form whose handler has just run
InlineError ==
    IF evt.who = "sdUpdate" THEN sdError
    ELSE IF evt.who = "udSave" THEN udError
    ELSE ""

\* C17: a submission that local validation rejects (missing date, missing platform, past
\* date, no current user) gives a visible message, an inline validation error or a
\* notification, in every dialog that validates
C17_RejectionIsShown == evt.res = "reject" => (evt.errs > 0 \/ InlineError # "")

\* C17: the first ScheduleContentDialog has rejected a complete form because nobody is
\* logged in, and has shown nothing
C17_SilentReject ==
    /\ scene = "dialog" /\ dlVersion = 1 /\ user = NoUser
    /\ evt.who = "dlSubmit" /\ evt.res = "reject" /\ evt.errs = 0
    /\ isFormValid

\* the createSource calls that have been sent and not answered
CreatesInFlight == {s \in Slots : net[s].op = "createSource" /\ net[s].phase = "sent"}

\* C19: in SourcesTab, while a createSource call is in flight (isCreating true), no second
\* createSource call is started by any user event, Enter in the URL input included
C19_OneCreateInFlight ==
    [][(scene = "sources" /\ stCreating /\ CreatesInFlight # {}) =>
          \A s \in Issued : net'[s].op # "createSource"]_vars

\* C19: two createSource calls of addSource are in flight at once while isCreating is set
C19_TwoCreatesInFlight ==
    /\ scene = "sources" /\ stCreating
    /\ Cardinality({s \in CreatesInFlight : net[s].who = "addSource"}) >= 2

\* C18: every busy flag that is set when a remote call starts (isSubmitting, isUpdating,
\* isSaving, isRefreshing, isCreating, the hooks' loading) is cleared again once the call
\* has completed, whether it succeeded or failed: whenever a flag is set, a later state
\* has it clear (flag ~> ~flag, written []<>~flag)
C18_BusyFlagsClear ==
    /\ []<>(~dlSubmitting)
    /\ []<>(~sdUpdating)
    /\ []<>(~cmUpdating)
    /\ []<>(~udUpdating)
    /\ []<>(~ptSaving)
    /\ []<>(~ptRefreshing)
    /\ []<>(~stCreating)
    /\ []<>(~sdLoading)
    /\ []<>(~scLoading)
    /\ []<>(~csLoading)

\* C18: a save of ScheduleDisplay has failed and its busy flag is clear again
C18_ClearedAfterFailure ==
    /\ scene = "display" /\ ~sdUpdating /\ ~sdLoading /\ HookAtRest
    /\ evt.who = "sdUpdate" /\ evt.res = "err"

\* the rows of the table that ScheduledPostsTab renders
PtDisplayed == IF PtRendered THEN Range(userScheduledContent) ELSE {}

\* C20: ScheduledPostsTab displays only rows whose user_id is the id of the current user,
\* and no row when there is no current user, whatever rows the fetch returned
C20_OnlyOwnRowsShown ==
    scene = "posts" =>
        /\ \A r \in PtDisplayed : user # NoUser /\ r.user_id = user
        /\ user = NoUser => PtDisplayed = {}

\* C20: the fetch has returned rows of two users and the tab shows those of the current one
C20_OtherUsersRowHidden ==
    /\ scene = "posts" /\ PtRendered /\ user # NoUser
    /\ PtDisplayed # {}
    /\ \E r \in Range(scList) : r.user_id # user

\* contentSchedules has one entry per selected item, in the order of the selection
DlOnePerSelected ==
    /\ Len(dlSchedules) = Len(dlSelected)
    /\ \A i \in DOMAIN dlSchedules : dlSchedules[i].contentId = dlSelected[i]

\* the effect-driven dialog shown for a selection
DlOpenWithSelection == scene = "dialog" /\ dlVersion = 3 /\ dlOpen /\ dlSelected # <<>>

\* C21: in the effect-driven ScheduleContentDialog, whenever the dialog is open with a
\* non-empty selectedContent, contentSchedules eventually has exactly one entry per
\* selected item (unless the dialog is closed or the selection emptied first), for every
\* sequence of open and close events, a reopen with the same selection included
C21_SchedulesFollowSelection == DlOpenWithSelection ~> (DlOnePerSelected \/ ~DlOpenWithSelection)

\* C21: the dialog is open for a selection, nothing is in flight, and contentSchedules is
\* empty: it shows "Loading selected content..."
C21_OpenAndEmpty == DlOpenWithSelection /\ dlSchedules = <<>> /\ HookAtRest /\ ~dlSubmitting

CsLocalOf(map, id) == {p \in CsLocal(map) : p[2].id = id}

\* the step in which the call of slot s, an update or a delete of the hook, completes
\* successfully
CsCompletes(s) == net[s].who \in CsMutations /\ net[s].phase = "ok" /\ net'[s].phase = "idle"

\* C22: under a caller that starts updateSchedule and deleteSchedule calls before the earlier
\* ones complete, a call that completes successfully leaves the map right: after
\* deleteSchedule(s, c) the schedule s is not listed under c, after updateSchedule(s, t)
\* every local entry of s has scheduled_at = t, and the completion of a call on s leaves
\* the local entries of every other schedule as they were, so that what an earlier call
\* achieved stays.
C22_OverlappingCallsKeepMap ==
    [][\A s \in Slots : CsCompletes(s) =>
          /\ net[s].who = "deleteSchedule" /\ net[s].sel \in Contents =>
                \A p \in CsLocalOf(csMap', net[s].id) : p[1] # net[s].sel
          /\ net[s].who = "updateSchedule" =>
                \A p \in CsLocalOf(csMap', net[s].id) :
                    p[2].scheduled_at = net[s].fields.scheduled_at
          /\ \A id \in 1 .. MaxId :
                id # net[s].id => CsLocalOf(csMap', id) = CsLocalOf(csMap, id)]_vars

\* a delete has completed successfully and taken its schedule off the map while another
\* call of the hook was still running
C22_CompletedWhileAnotherRuns ==
    /\ scene = "cshook"
    /\ evt.who = "deleteSchedule" /\ evt.res = "ok"
    /\ \E s \in Slots : net[s].who \in CsMutations
    /\ CsLocalOf(csMap, evt.id) = {}
    /\ \E c \in Contents : csMap[c] # NoEntry

\* C23: a fetchScheduledContent that is in flight while deleteScheduledContent or
\* updateScheduledContent completes on the same hook does not leave stale rows behind: once
\* both have completed, every row of the local list is a row of the remote table as it is
\* then, so that a deleted row is not listed and an updated row does not show its old
\* scheduled_at.
C23_NoStaleRowsAfterFetch ==
    (scene = "schook" /\ HookAtRest) => \A i \in DOMAIN scList : scList[i] \in table

\* a delete or an update has completed successfully while the fetch of the mount effect,
\* already answered, was still to complete
C23_MutationDoneDuringFetch ==
    /\ scene = "schook"
    /\ evt.who \in {"deleteScheduledContent", "updateScheduledContent"} /\ evt.res = "ok"
    /\ \E s \in Slots : net[s].who = "scFetch" /\ net[s].phase = "ok"

\* C24: ScheduleDisplay never adds a row for a content_id that has a row already: whatever
\* the preceding fetchScheduleData came to (a row, a failure, several rows), a row that
\* enters the table while the component is mounted is the first of its content.
C24_NoSecondRowPerContent ==
    [][scene = "display" =>
          \A r \in table' :
              (\A q \in table : q.id # r.id) => \A q \in table : q.content_id # r.content_id]_vars

\* handleUpdateSchedule has sent an insert although the table holds a row of the content
C24_InsertSentOverExistingRow ==
    /\ scene = "display"
    /\ evt.who = "sdUpdate" /\ evt.res = "start"
    /\ \E s \in Slots : net[s].who = "sdUpdate" /\ net[s].op = "insert"
    /\ \E q \in table : q.content_id = sdContent

CsSorted(list) ==
    \A i, j \in DOMAIN list : i < j => list[i].scheduled_at <= list[j].scheduled_at

\* C25: under a caller that awaits each call, every entry of the contentSchedules map has
\* its schedules in ascending order of scheduled_at, hasSchedule true exactly when there
\* are schedules, and nextSchedule the scheduled_at of the first schedule, or null when
\* there is none.
C25_EntriesWellFormed ==
    scene = "cshook" =>
        \A c \in Contents :
            csMap[c] # NoEntry =>
                /\ CsSorted(csMap[c].schedules)
                /\ csMap[c].hasSchedule <=> csMap[c].schedules # <<>>
                /\ csMap[c].nextSchedule = IF csMap[c].schedules = <<>> THEN NoTime
                                           ELSE csMap[c].schedules[1].scheduled_at

\* a successful updateSchedule has moved a schedule ahead of another one
C25_UpdateReordered ==
    /\ scene = "cshook"
    /\ evt.who = "updateSchedule" /\ evt.res = "ok"
    /\ Len(csMap[1].schedules) = 2
    /\ csMap[1].schedules[1].id = 1
    /\ csMap[1].schedules[1].scheduled_at < csMap[1].schedules[2].scheduled_at

\* C26: the local scheduledContent list of hooks/useScheduledContent.ts stays in the order
\* of the fetch, ascending by scheduled_at (rows without one last), in every state after a
\* successful fetch, later successful scheduleContent, scheduleMultipleContent and
\* updateScheduledContent included.
C26_ListStaysSorted ==
    scene = "schook" =>
        \A i, j \in DOMAIN scList :
            i < j => SortKey(scList[i].scheduled_at) <= SortKey(scList[j].scheduled_at)

\* a successful updateScheduledContent has replaced a row of a list of several rows
C26_UpdatedInPlace ==
    /\ scene = "schook"
    /\ evt.who = "updateScheduledContent" /\ evt.res = "ok"
    /\ Len(scList) >= 2
    /\ \E i \in DOMAIN scList : scList[i].id = evt.id /\ scList[i].scheduled_at = T0 + 60

\* the step in which the submit or save that control who sent completes with outcome res
Concludes(s, who, res) == net[s].who = who /\ net[s].phase = res /\ net'[s] = Idle

\* C27: a schedule dialog is closed by its submit or save only when the remote call
\* succeeded: the completion of a successful call closes the dialog, once, as the call is
\* done with in the same step; the completion of a failed call leaves the dialog as open as
\* it was and keeps the date and time entered.
C27_ClosedOnSuccessOnly ==
    [][\A s \in Slots :
          /\ Concludes(s, "dlSubmit", "ok") => ~dlOpen'
          /\ Concludes(s, "dlSubmit", "err") => dlOpen' = dlOpen /\ dlSchedules' = dlSchedules
          /\ Concludes(s, "udSave", "ok") => ~udOpen'
          /\ Concludes(s, "udSave", "err") => udOpen' = udOpen /\ udInput' = udInput
          /\ Concludes(s, "ptSave", "ok") => ~ptDialogOpen'
          /\ Concludes(s, "ptSave", "err") =>
                ptDialogOpen' = ptDialogOpen /\ ptInput' = ptInput /\ ptEditing' = ptEditing]_vars

\* a save of UpdateScheduleDialog has failed and the dialog is open with the time entered
C27_FailedSaveKeptOpen ==
    /\ scene = "upd"
    /\ evt.who = "udSave" /\ evt.res = "err"
    /\ udOpen /\ udInput # NoTime

\* the rows of content c that a request made at time at asks for
CsAskedRows(c, at) ==
    {r \in table : r.content_id = c /\ r.scheduled_at # NoTime /\ r.scheduled_at >= at}

\* entry e lists the rows of the set rows, each once, with their scheduled_at
CsListsExactly(e, rows) ==
    /\ Len(e.schedules) = Cardinality(rows)
    /\ \A r \in rows :
          \E i \in DOMAIN e.schedules :
              e.schedules[i].id = r.id /\ e.schedules[i].scheduled_at = r.scheduled_at

\* C28: when a fetchContentSchedules(ids) with ids not empty completes successfully, the map
\* has an entry for each requested id and for no other, and the entry of a requested id lists
\* exactly the remote rows of that content whose scheduled_at is not before the time of the
\* request; fetchContentSchedules of no ids makes no remote call and leaves the map as it is.
C28_FetchBuildsRequestedMap ==
    [][/\ \A s \in Slots :
             Concludes(s, "fetchContentSchedules", "ok") =>
                 \A c \in Contents :
                     IF c \in net[s].sel
                     THEN /\ csMap'[c] # NoEntry /\ csMap'[c].contentId = c
                          /\ CsListsExactly(csMap'[c], CsAskedRows(c, net[s].at))
                     ELSE csMap'[c] = NoEntry
       /\ (evt'.who = "fetchContentSchedules" /\ evt'.res = "skip") =>
             UNCHANGED <<net, csMap, csLoading, table>>]_vars

\* a fetch of both contents has completed over a table that holds a row of the past: one
\* entry lists two rows and the other none
C28_FetchedWithPastRowLeftOut ==
    /\ scene = "cshook"
    /\ evt.who = "fetchContentSchedules" /\ evt.res = "ok"
    /\ Len(csMap[1].schedules) = 2
    /\ csMap[2] # NoEntry /\ csMap[2].schedules = <<>>
    /\ \E r \in table : r.content_id = 2

\* day d at time t, seconds and milliseconds zero
DpDayAt(d, t) == DpDate(ParseLocal(DayStart(d.t + tz) + t), 0)

\* C29: in every state of a mounted DateTimePicker, for every day d of the calendar and
\* every time t, selecting d and then t, and selecting t and then d, end with the same
\* value passed last to onDateTimeChange: day d at time t, seconds and milliseconds zero.
C29_DateAndTimeCommute ==
    (scene = "picker" /\ dp.mounted) =>
        \A d \in DpDays, t \in DpTimes :
            /\ DpAfterTime(DpAfterDate(dp, d), t).passed = DpDayAt(d, t)
            /\ DpAfterDate(DpAfterTime(dp, t), d).passed = DpDayAt(d, t)

\* the same, of the states in which the time field holds a time
C29_CommuteWhenTimeHeld ==
    (scene = "picker" /\ dp.mounted /\ dp.timeValue # NoTime) =>
        \A d \in DpDays, t \in DpTimes :
            /\ DpAfterTime(DpAfterDate(dp, d), t).passed = DpDayAt(d, t)
            /\ DpAfterDate(DpAfterTime(dp, t), d).passed = DpDayAt(d, t)

\* the time field has been cleared while no date was selected: the picker is mounted and
\* its timeValue is the empty string
C29_TimeFieldCleared ==
    /\ scene = "picker" /\ dp.mounted
    /\ evt.who = "handleTimeChange"
    /\ dp.timeValue = NoTime /\ dp.selectedDate = DpUndefined

====
